---- MODULE Spec2Model ----
(***************************************************************************)
(* Model of the upgrade engine of radarr-cf-search (src/app.py) and of its *)
(* web run coordinator (src/web_service.py).                               *)
(*                                                                         *)
(* Spec      : the entry point main() of app.py, invoked again and again   *)
(*             (cron), one action per HTTP request the cycle makes.        *)
(* FairSpec  : Spec, with every started run of main carried on.            *)
(* SpecCoord : POST /api/trigger and its background jobs on the event      *)
(*             loop, one action per stretch of code between two awaits.    *)
(* SpecTag   : a caller that calls ensure_tag several times in succession. *)
(***************************************************************************)
EXTENDS Integers, Sequences, FiniteSets, TLC

\* ------------------------------------------------------------------ bounds
MaxMovies == 2      \* movies in the Radarr library
MaxFiles == 2       \* episode files in the Sonarr library
MaxCount == 2       \* largest configured NUM_*_TO_UPGRADE
MaxFailures == 1    \* HTTP requests that fail (after retries) in one behaviour
MaxTriggers == 3    \* POST /api/trigger requests in one behaviour
MaxTags == 3        \* tag ids a catalog service can hand out
MaxCalls == 2       \* successive calls of ensure_tag by one caller
MaxSubscribers == 2 \* clients of GET /api/events
MaxEvents == 3      \* events published in one behaviour
MaxItems == 3       \* items handed to one call of parallel_map
MaxParallel == 3    \* largest MAX_PARALLEL_REQUESTS of the environment

\* --------------------------------------------------------------- constants
UPGRADE_TAG == "upgrade-cf"
OtherLabel == "other"
NoLabel == "none"
None == 0

TagIds == 1..MaxTags
SeriesIds == 1..2
Profiles == {1, 2}
\* GET /qualityprofile: profile id -> cutoffFormatScore
QualityProfiles == [p \in Profiles |-> IF p = 1 THEN 2 ELSE 3]
Scores == {1, 2}
Counts == (0 - 1)..MaxCount
\* GET /episode?episodeFileId=f: the ids of the episodes stored in file f
\* (file 1 is known to no episode, file 2 holds two episodes)
EpisodeIdsOf(f) == IF f = 1 THEN {} ELSE IF f = 2 THEN {21, 22} ELSE {10 + f}

VARIABLES
    cfg,              \* AppConfig (load_app_config)
    pc,               \* position of main()
    failures,         \* failed requests so far
    rTags,            \* Radarr: tag id -> label (NoLabel: no such tag)
    movie,            \* Radarr: the library, movie id -> movie resource
    movieFile,        \* Radarr: movie file id -> customFormatScore
    sTags,            \* Sonarr: tag id -> label
    series,           \* Sonarr: the library, series id -> series resource
    episodeFile,      \* Sonarr: episode file id -> episode file resource
    rad,              \* locals of run_radarr_upgrade / collect_radarr_upgrade_candidates
    son,              \* locals of run_sonarr_upgrade / collect_sonarr_upgrade_candidates
    RECENT_UPGRADES,  \* app.py:84
    searches,         \* search commands each service received during this run of main
    reqs,             \* requests sent during this run of main
    outcome,          \* how each cycle of this run of main ended
    pre,              \* history: the libraries and RECENT_UPGRADES when this run of main started
    hist,             \* history: the movies a selection tagged, in earlier runs of main and in
                      \* this one, and the items tagged by a cycle that failed before its search
                      \* (before) and in this one (now), and that no reset untagged since
    RUN_LOCK,         \* web_service.py:26
    LAST_STATUS,      \* web_service.py:27
    EVENT_QUEUE,      \* web_service.py:28
    job,              \* the trigger requests and their background jobs
    tc,               \* a client calling ensure_tag twice (SpecTag)
    POLISHRR_TOKEN,   \* web_service.py:24, as a sequence of characters
    ALLOWED_IPS,      \* web_service.py:25
    op,               \* one operation of the service on one item, or one query (SpecOps)
    pool,             \* one call of parallel_map and its executor (SpecPool)
    poll,             \* one GET /api/status sent while runs go on (SpecPoll)
    stream,           \* the clients of GET /api/events and the publisher (SpecEvents)
    att,              \* one request of HttpClient and its attempts (SpecHttp)
    http              \* the HTTP request the service received, and its answer (SpecAuth)

radarrVars == <<rTags, movie, movieFile>>
sonarrVars == <<sTags, series, episodeFile>>
webVars == <<RUN_LOCK, LAST_STATUS, EVENT_QUEUE, job>>
serveVars == <<POLISHRR_TOKEN, ALLOWED_IPS, http, att, stream, poll, op, pool>>
vars == <<cfg, pc, failures, rTags, movie, movieFile, sTags, series, episodeFile, rad, son,
          RECENT_UPGRADES, searches, reqs, outcome, pre, hist, RUN_LOCK, LAST_STATUS,
          EVENT_QUEUE, job, tc, POLISHRR_TOKEN, ALLOWED_IPS, http, att, stream, poll, op, pool,
          pool>>

\* ------------------------------------------------------------ pure helpers
Min(a, b) == IF a < b THEN a ELSE b

\* the ascending sequence of a finite set of integers: sorted(set(...))
RECURSIVE SortedSeq(_)
SortedSeq(S) ==
    IF S = {} THEN <<>>
    ELSE LET x == CHOOSE y \in S : \A z \in S : y <= z
         IN <<x>> \o SortedSeq(S \ {x})

Range(s) == {s[i] : i \in DOMAIN s}

\* the orders in which a service can list the members of a set
Orders(S) == {s \in [1..Cardinality(S) -> S] : Range(s) = S}

\* faulty variant of the operator below: the list is left as it was resolved
AsResolved(all_episode_ids) == all_episode_ids
\* run_sonarr_upgrade, line 485: sorted(set(all_episode_ids))
SortedSet(all_episode_ids) == SortedSeq(Range(all_episode_ids))

\* GET /tag: the tag resources, in id order
TagList(store) ==
    LET ids == {t \in DOMAIN store : store[t] # NoLabel}
    IN [i \in 1..Cardinality(ids) |->
          [id |-> SortedSeq(ids)[i], label |-> store[SortedSeq(ids)[i]]]]

\* faulty variant of line 210: the label is never found
FindTagNever(tags, label) == None
\* ensure_tag, line 210: next((t["id"] for t in tags if t.get("label") == label), None)
FindTag(tags, label) ==
    LET hits == {i \in 1..Len(tags) : tags[i].label = label}
    IN IF hits = {} THEN None
       ELSE tags[CHOOSE i \in hits : \A j \in hits : i <= j].id

\* POST /tag: the service stores the label under the next free id
FreeTagIds(store) == {t \in DOMAIN store : store[t] = NoLabel}
NewTagId(store) == CHOOSE t \in FreeTagIds(store) : \A u \in FreeTagIds(store) : t <= u
CreateTag(store, label) == [store EXCEPT ![NewTagId(store)] = label]

\* random.sample(population, k): ValueError unless 0 <= k <= len(population),
\* else any k-sequence of distinct elements
SampleRaises(population, k) == k < 0 \/ k > Cardinality(population)
Sample(population, k) ==
    {s \in [1..k -> population] : \A i, j \in 1..k : i # j => s[i] # s[j]}

\* faulty variant of lines 370 and 451: the configured count, not capped
SampleSizeUncapped(num_to_upgrade, candidates) == num_to_upgrade
\* faulty variant of lines 370 and 451: no candidate is taken
SampleSizeNone(num_to_upgrade, candidates) == 0
\* faulty variant of lines 370 and 451: every candidate is taken
SampleSizeAll(num_to_upgrade, candidates) == Cardinality(DOMAIN candidates)
\* run_radarr_upgrade, line 370, and run_sonarr_upgrade, line 451
SampleSize(num_to_upgrade, candidates) ==
    Min(num_to_upgrade, Cardinality(DOMAIN candidates))

\* faulty variant of lines 374 and 455: the list is left as it is
NotCleared(list) == list
\* run_radarr_upgrade, line 374, and run_sonarr_upgrade, line 455: list.clear()
Cleared(list) == <<>>

\* collect_radarr_upgrade_candidates, line 306
Listed(movies) ==
    {i \in DOMAIN movies : movies[i].monitored /\ movies[i].movieFileId # None}

\* q_scores.get(profile_id, 0)
CutoffOf(q_scores, profile_id) ==
    IF profile_id \in DOMAIN q_scores THEN q_scores[profile_id] ELSE 0

\* faulty variants of line 328: the cutoff itself counts as below, the tag is not looked at
IsCandidateAtCutoff(m, current, cutoff, tag_id) == current <= cutoff /\ tag_id \notin m.tags
IsCandidateTagIgnored(m, current, cutoff, tag_id) == current < cutoff
\* collect_radarr_upgrade_candidates, line 328
IsCandidate(m, current, cutoff, tag_id) == current < cutoff /\ tag_id \notin m.tags

\* collect_radarr_upgrade_candidates, lines 315-333
RadarrCandidates(movies, listed, fetched, q_scores, tag_id) ==
    LET ids == {i \in listed :
                  /\ i \in DOMAIN fetched
                  /\ IsCandidate(movies[i], fetched[i],
                                 CutoffOf(q_scores, movies[i].qualityProfileId), tag_id)}
    IN [i \in ids |-> [title |-> i,
                       currentScore |-> fetched[i],
                       requiredScore |-> CutoffOf(q_scores, movies[i].qualityProfileId)]]

\* run_radarr_upgrade, line 357
AllTagged(movies, tag_id) == \A i \in DOMAIN movies : tag_id \in movies[i].tags

\* faulty variant of lines 401-407: a series that carries the tag is not passed over
\* faulty variant of the same test: the series that bear the tag are the ones
\* that are looked at
SeriesSkippedUnlessTagged(serie, tag_id) ==
    serie.episodeFileCount = 0 \/ tag_id \notin serie.tags
SeriesSkippedTagIgnored(serie, tag_id) == serie.episodeFileCount = 0
\* collect_sonarr_upgrade_candidates, lines 401-407: the series is passed over
\* without a request
SeriesSkipped(serie, tag_id) ==
    serie.episodeFileCount = 0 \/ tag_id \in serie.tags

\* collect_sonarr_upgrade_candidates, lines 416-428: the candidates one series
\* adds, keyed by episode file id
SeriesCandidates(serie, episode_files, q_scores) ==
    LET cutoff == CutoffOf(q_scores, serie.qualityProfileId)
        ids == {f \in DOMAIN episode_files : episode_files[f].customFormatScore < cutoff}
    IN [f \in ids |-> [title |-> f, seriesId |-> serie.id,
                       currentScore |-> episode_files[f].customFormatScore,
                       requiredScore |-> cutoff]]

\* dict update: the entries of b added to (or replacing those of) a
Merge(a, b) == [k \in DOMAIN a \cup DOMAIN b |-> IF k \in DOMAIN b THEN b[k] ELSE a[k]]

\* GET /episodefile?seriesId=s
EpisodeFilesOf(files, s) ==
    LET ids == {f \in DOMAIN files : files[f].seriesId = s}
    IN [f \in ids |-> files[f]]

\* lines 377, 459, 773 and 790: sorted(set(tags) | {tag_id})
\* faulty variant of the union below: the tag replaces the tags of the item
TaggedAlone(tags, tag_id) == {tag_id}
Tagged(tags, tag_id) == tags \cup {tag_id}

\* PUT /movie/{id} and PUT /series/{id}: the service stores the fields of the
\* resource sent that a client can edit; the file and the file count are its own
Stored(current, resource) ==
    [current EXCEPT !.tags = resource.tags, !.monitored = resource.monitored]

\* ------------------------------------------------------------------- state
RadInit == [tag_id |-> None, movies |-> <<>>, q_scores |-> <<>>, listed |-> {},
            pending |-> {}, fetched |-> <<>>, collected |-> FALSE, candidates |-> <<>>,
            selected_ids |-> <<>>, i |-> 0, m |-> <<>>]

SonInit == [tag_id |-> None, q_scores |-> <<>>, series_list |-> <<>>, j |-> 0,
            unfetched |-> {}, collected |-> FALSE, candidates |-> <<>>,
            selected_ids |-> <<>>, i |-> 0, serie |-> <<>>, all_episode_ids |-> <<>>]

NoOutcome == [radarr |-> "none", sonarr |-> "none"]
NoSearches == [radarr |-> <<>>, sonarr |-> <<>>]
Raised(how) == how \in {"HTTPError", "ValueError"}

\* a request either succeeds or, its retries exhausted, raises
Results == IF failures < MaxFailures THEN {TRUE, FALSE} ELSE {TRUE}
\* a request for a resource the service does not hold is answered 404, which
\* raise_for_status (line 164) raises
ResultsOf(held) ==
    IF held THEN Results ELSE IF failures <= MaxFailures THEN {FALSE} ELSE {}
Sent(ok, request) ==
    /\ failures' = failures + (IF ok THEN 0 ELSE 1)
    /\ reqs' = reqs \cup {request}

NoTags == [t \in TagIds |-> NoLabel]
TagStores ==
    { NoTags,
      [t \in TagIds |-> IF t = 1 THEN OtherLabel ELSE IF t = 2 THEN UPGRADE_TAG ELSE NoLabel] }

EngineTag(store) == FindTag(TagList(store), UPGRADE_TAG)
\* the tag sets an item can have: with or without the engine tag, once it exists
TagSets(store) == IF EngineTag(store) = None THEN {{}} ELSE {{}, {EngineTag(store)}}

\* a Radarr library of at most maxN movies
InitRadarr(maxN) ==
    /\ rTags \in TagStores
    /\ \E n \in 0..maxN :
         \E mon \in [1..n -> BOOLEAN], sc \in [1..n -> {None} \cup Scores],
            tg \in [1..n -> TagSets(rTags)] :
           /\ movie = [i \in 1..n |->
                         [id |-> i, monitored |-> mon[i],
                          movieFileId |-> IF sc[i] = None THEN None ELSE i,
                          qualityProfileId |-> 1 + (i % 2),
                          tags |-> tg[i]]]
           /\ movieFile = [i \in {j \in 1..n : sc[j] # None} |-> sc[i]]

\* a Sonarr library of at most maxS series and maxF episode files
InitSonarr(maxS, maxF) ==
    /\ sTags \in TagStores
    /\ \E ns \in 0..maxS :
         \E nf \in 0..(IF ns = 0 THEN 0 ELSE maxF) :
           \E mon \in [1..ns -> BOOLEAN], tg \in [1..ns -> TagSets(sTags)],
              owner \in [1..nf -> 1..ns], sc \in [1..nf -> Scores] :
             /\ episodeFile = [f \in 1..nf |->
                                 [id |-> f, seriesId |-> owner[f],
                                  customFormatScore |-> sc[f]]]
             /\ series = [s \in 1..ns |->
                            [id |-> s, monitored |-> mon[s],
                             qualityProfileId |-> 1 + (s % 2),
                             tags |-> tg[s],
                             episodeFileCount |->
                                Cardinality({f \in 1..nf : owner[f] = s})]]

Config(re, rn, se, sn) ==
    [radarr |-> [enabled |-> re, num_to_upgrade |-> rn],
     sonarr |-> [enabled |-> se, num_to_upgrade |-> sn],
     tag_name |-> UPGRADE_TAG]

\* one kind enabled with a full library, or both kinds with one item each
InitLibraries ==
    \/ /\ \E rn \in Counts : cfg = Config(TRUE, rn, FALSE, 1)
       /\ InitRadarr(MaxMovies)
       /\ InitSonarr(0, 0)
    \/ /\ \E sn \in Counts : cfg = Config(FALSE, 1, TRUE, sn)
       /\ InitRadarr(0)
       /\ InitSonarr(Cardinality(SeriesIds), MaxFiles)
    \/ /\ \E n \in Counts : cfg = Config(TRUE, n, TRUE, n)
       /\ InitRadarr(1)
       /\ InitSonarr(1, 1)

\* the tag sets of an item whose users gave it tags of their own
LabelSets(store) == SUBSET {t \in TagIds : store[t] # NoLabel}
\* a Radarr library of maxN movies with files, its users' tags on them
InitRadarrLabelled(maxN) ==
    /\ rTags \in TagStores
    /\ \E mon \in [1..maxN -> BOOLEAN], sc \in [1..maxN -> Scores],
          tg \in [1..maxN -> LabelSets(rTags)] :
         /\ movie = [i \in 1..maxN |->
                       [id |-> i, monitored |-> mon[i], movieFileId |-> i,
                        qualityProfileId |-> 1 + (i % 2), tags |-> tg[i]]]
         /\ movieFile = [i \in 1..maxN |-> sc[i]]
\* the libraries of InitLibraries, the movies bearing tags of their users
InitLabelled ==
    \/ /\ \E rn \in Counts : cfg = Config(TRUE, rn, FALSE, 1)
       /\ InitRadarrLabelled(MaxMovies)
       /\ InitSonarr(0, 0)
    \/ /\ \E n \in Counts : cfg = Config(TRUE, n, TRUE, n)
       /\ InitRadarrLabelled(1)
       /\ InitSonarr(1, 1)

\* no library at all: the state of a service that is not looked at
NoLibraries ==
    /\ rTags = NoTags /\ movie = <<>> /\ movieFile = <<>>
    /\ sTags = NoTags /\ series = <<>> /\ episodeFile = <<>>

\* history: the items (movies, series) that the cycle of a kind tagged in the
\* run of main that just ended, if that cycle raised before its search command
\* was accepted
LeftTagged(kind) ==
    IF ~Raised(outcome[kind]) THEN {}
    ELSE IF kind = "radarr" THEN hist.now
    ELSE IF son.collected /\ son.i > 0
      THEN {RECENT_UPGRADES.sonarr[k].seriesId : k \in DOMAIN RECENT_UPGRADES.sonarr}
    ELSE {}

\* main() has not run yet
InitEngine ==
    /\ pc = "idle"
    /\ failures = 0
    /\ rad = RadInit
    /\ son = SonInit
    /\ RECENT_UPGRADES = [radarr |-> <<>>, sonarr |-> <<>>]
    /\ searches = NoSearches
    /\ reqs = {}
    /\ outcome = NoOutcome
    /\ pre = [movie |-> movie, series |-> series, recent |-> RECENT_UPGRADES]
    /\ hist = [before |-> {}, now |-> {}, stranded |-> [radarr |-> {}, sonarr |-> {}]]

\* web_service.py, lines 26-28: the module's globals
Requests == 1..MaxTriggers
Targets == {"radarr", "sonarr", "both", "", "movies"}
JobInit == [pc |-> "new", target |-> "", response |-> None, at |-> 1,
            attempted |-> {}, res |-> "None", terminal |-> 0]
InitWeb ==
    /\ RUN_LOCK = [locked |-> FALSE, waiters |-> <<>>]
    /\ LAST_STATUS = [started |-> None, finished |-> None, running |-> FALSE,
                      last_result |-> "None"]
    /\ EVENT_QUEUE = <<>>
    /\ job = [r \in Requests |-> JobInit]

\* web_service.py, lines 24-25: no secret and no allow-list configured, and no
\* request received yet
NoRequest == [endpoint |-> "none", authorization |-> [text |-> <<>>, bearer |-> <<>>],
              forwarded |-> "absent", host |-> "none",
              body |-> [target |-> "", id |-> None, tagged |-> FALSE, eligible |-> FALSE],
              status |-> None, served |-> FALSE]
\* no request of HttpClient under way
NoAttempt == [pc |-> "idle", method |-> "GET", max_retries |-> 0,
              retries |-> [total |-> 0, connect |-> 0, read |-> 0, status |-> 0],
              attempts |-> 0, error |-> "none", status_code |-> None]
\* nobody listens to the events, and nothing has been published
Subscribers == 1..MaxSubscribers
NoStream == [sub |-> [s \in Subscribers |-> [pc |-> "off", got |-> <<>>]],
             getters |-> <<>>, published |-> 0, blocked |-> FALSE]
\* no GET /api/status was sent
NoPoll == [pc |-> "none", during |-> None, in_cycle |-> FALSE, running |-> FALSE]
\* no operation on an item is under way
NoOp == [pc |-> "idle", name |-> "", target |-> "", item_id |-> None, tag_id |-> None,
         item |-> <<>>, listed |-> <<>>, pending |-> {}, errors |-> {}, result |-> "None"]
\* parallel_map has not been called
NoPool == [pc |-> "idle", MAX_PARALLEL_REQUESTS |-> None, max_workers |-> 0, items |-> 0,
           submitted |-> 0, queue |-> <<>>, running |-> {}, ended |-> {}, raised |-> {},
           yielded |-> {}, results |-> <<>>]
InitServe ==
    /\ POLISHRR_TOKEN = <<>>
    /\ ALLOWED_IPS = <<>>
    /\ http = NoRequest
    /\ att = NoAttempt
    /\ stream = NoStream
    /\ poll = NoPoll
    /\ op = NoOp
    /\ pool = NoPool

TcInit == [label |-> UPGRADE_TAG, pc |-> "done", call |-> 0, returned |-> <<>>,
           posts |-> 0, raised |-> 0, existed |-> FALSE]

Init ==
    /\ InitLibraries
    /\ InitEngine
    /\ InitWeb
    /\ InitServe
    /\ tc = TcInit

\* main() has not run yet, and the movies bear tags of their users
InitLabels ==
    /\ InitLabelled
    /\ InitEngine
    /\ InitWeb
    /\ InitServe
    /\ tc = TcInit

\* ----------------------------------------------------------------- main()
\* main, lines 871-874: the cycle of movies is entered first
Main ==
    /\ pc = "idle"
    /\ pc' = "r_entry"
    /\ rad' = RadInit
    /\ son' = SonInit
    /\ searches' = NoSearches
    /\ reqs' = {}
    /\ outcome' = NoOutcome
    /\ pre' = [movie |-> movie, series |-> series, recent |-> RECENT_UPGRADES]
    /\ hist' = [before |-> hist.before \cup hist.now, now |-> {},
                stranded |-> [radarr |-> hist.stranded.radarr \cup LeftTagged("radarr"),
                              sonarr |-> hist.stranded.sonarr \cup LeftTagged("sonarr")]]
    /\ UNCHANGED <<cfg, webVars, serveVars, tc, failures, radarrVars, sonarrVars, RECENT_UPGRADES>>

\* run_radarr_upgrade returns, or raises into main's except (lines 875-876):
\* either way main goes on to the cycle of episodes (line 878)
RadarrEnds(how) ==
    /\ outcome' = [outcome EXCEPT !.radarr = how]
    /\ pc' = "s_entry"

\* run_radarr_upgrade, lines 343-345
R_Entry ==
    /\ pc = "r_entry"
    /\ IF cfg.radarr.enabled
         THEN pc' = "r_ensure_tag" /\ UNCHANGED outcome
         ELSE RadarrEnds("disabled")
    /\ UNCHANGED <<cfg, webVars, serveVars, tc, hist, failures, radarrVars, sonarrVars, rad, son, RECENT_UPGRADES,
                   searches, reqs, pre>>

\* ensure_tag, lines 207-212: GET /tag and the lookup by label
R_EnsureTagGet ==
    /\ pc = "r_ensure_tag"
    /\ \E ok \in Results :
         /\ Sent(ok, "radarr GET /tag")
         /\ IF ~ok THEN RadarrEnds("HTTPError") /\ UNCHANGED rad
            ELSE LET match == FindTag(TagList(rTags), cfg.tag_name) IN
                 /\ UNCHANGED outcome
                 /\ IF match # None
                      THEN rad' = [rad EXCEPT !.tag_id = match] /\ pc' = "r_movies"
                      ELSE UNCHANGED rad /\ pc' = "r_create_tag"
    /\ UNCHANGED <<cfg, webVars, serveVars, tc, hist, radarrVars, sonarrVars, son, RECENT_UPGRADES, searches, pre>>

\* ensure_tag, lines 213-216: POST /tag
R_EnsureTagPost ==
    /\ pc = "r_create_tag"
    /\ FreeTagIds(rTags) # {}
    /\ \E ok \in Results :
         /\ Sent(ok, "radarr POST /tag")
         /\ IF ~ok THEN RadarrEnds("HTTPError") /\ UNCHANGED <<rad, rTags>>
            ELSE /\ rTags' = CreateTag(rTags, cfg.tag_name)
                 /\ rad' = [rad EXCEPT !.tag_id = NewTagId(rTags)]
                 /\ pc' = "r_movies"
                 /\ UNCHANGED outcome
    /\ UNCHANGED <<cfg, webVars, serveVars, tc, hist, movie, movieFile, sonarrVars, son, RECENT_UPGRADES, searches, pre>>

\* run_radarr_upgrade, lines 351-357: GET /movie, then the choice of the branch
R_Movies ==
    /\ pc = "r_movies"
    /\ \E ok \in Results :
         /\ Sent(ok, "radarr GET /movie")
         /\ IF ~ok THEN RadarrEnds("HTTPError") /\ UNCHANGED rad
            ELSE IF DOMAIN movie = {}
              THEN RadarrEnds("empty") /\ rad' = [rad EXCEPT !.movies = movie]
            ELSE IF AllTagged(movie, rad.tag_id)
              THEN /\ rad' = [rad EXCEPT !.movies = movie, !.i = 1]
                   /\ pc' = "r_reset"
                   /\ UNCHANGED outcome
            ELSE /\ rad' = [rad EXCEPT !.movies = movie]
                 /\ pc' = "r_profiles"
                 /\ UNCHANGED outcome
    /\ UNCHANGED <<cfg, webVars, serveVars, tc, hist, radarrVars, sonarrVars, son, RECENT_UPGRADES, searches, pre>>

\* run_radarr_upgrade, lines 359-363: one PUT /movie/{id} of the reset loop;
\* the resource written is the one listed at line 351, without the tag
R_Reset ==
    /\ pc = "r_reset"
    /\ \E ok \in Results :
         /\ Sent(ok, "radarr PUT /movie")
         /\ IF ~ok THEN RadarrEnds("HTTPError") /\ UNCHANGED <<rad, movie, hist>>
            ELSE LET m == [rad.movies[rad.i] EXCEPT !.tags = @ \ {rad.tag_id}] IN
                 /\ movie' = [movie EXCEPT ![m.id] = Stored(@, m)]
                 /\ hist' = [hist EXCEPT !.before = @ \ {m.id}, !.now = @ \ {m.id},
                                         !.stranded.radarr = @ \ {m.id}]
                 /\ IF rad.i = Len(rad.movies)
                      THEN RadarrEnds("reset") /\ UNCHANGED rad
                      ELSE /\ rad' = [rad EXCEPT !.i = @ + 1]
                           /\ UNCHANGED <<pc, outcome>>
    /\ UNCHANGED <<cfg, webVars, serveVars, tc, rTags, movieFile, sonarrVars, son, RECENT_UPGRADES, searches, pre>>

\* collect_radarr_upgrade_candidates, line 305: GET /qualityprofile
R_Profiles ==
    /\ pc = "r_profiles"
    /\ \E ok \in Results :
         /\ Sent(ok, "radarr GET /qualityprofile")
         /\ IF ~ok THEN RadarrEnds("HTTPError") /\ UNCHANGED rad
            ELSE /\ rad' = [rad EXCEPT !.q_scores = QualityProfiles]
                 /\ pc' = "r_list"
                 /\ UNCHANGED outcome
    /\ UNCHANGED <<cfg, webVars, serveVars, tc, hist, radarrVars, sonarrVars, son, RECENT_UPGRADES, searches, pre>>

\* collect_radarr_upgrade_candidates, lines 306-313: GET /movie, the filter, and
\* the submission of one fetch_score task per listed movie
R_List ==
    /\ pc = "r_list"
    /\ \E ok \in Results :
         /\ Sent(ok, "radarr GET /movie")
         /\ IF ~ok THEN RadarrEnds("HTTPError") /\ UNCHANGED rad
            ELSE /\ rad' = [rad EXCEPT !.movies = movie, !.listed = Listed(movie),
                                       !.pending = Listed(movie)]
                 /\ pc' = "r_fetch"
                 /\ UNCHANGED outcome
    /\ UNCHANGED <<cfg, webVars, serveVars, tc, hist, radarrVars, sonarrVars, son, RECENT_UPGRADES, searches, pre>>

\* fetch_score (lines 309-311) run by parallel_map (lines 290-296): GET
\* /moviefile/{id}; a task that raises is logged and yields no result
R_FetchScore ==
    /\ pc = "r_fetch"
    /\ \E i \in rad.pending :
       \E ok \in ResultsOf(rad.movies[i].movieFileId \in DOMAIN movieFile) :
         /\ Sent(ok, "radarr GET /moviefile")
         /\ rad' = [rad EXCEPT
                      !.pending = @ \ {i},
                      !.fetched = IF ok
                                    THEN [j \in DOMAIN @ \cup {i} |->
                                            IF j = i
                                              THEN movieFile[rad.movies[i].movieFileId]
                                              ELSE @[j]]
                                    ELSE @]
    /\ UNCHANGED <<cfg, webVars, serveVars, tc, hist, pc, radarrVars, sonarrVars, son, RECENT_UPGRADES, searches,
                   outcome, pre>>

\* collect_radarr_upgrade_candidates, lines 315-339, once every task has ended,
\* then run_radarr_upgrade, lines 365-374: the selection
\* faulty variant of the test below: an empty collection is not noticed
NoCandidatesNever(candidates) == FALSE
\* `if not candidates`, lines 366 and 447
NoCandidates(candidates) == DOMAIN candidates = {}

\* faulty variant of the test below: parallel_map returns at once
NoneAwaited(pending) == TRUE
\* parallel_map, lines 290-297: the pool is left once every task has ended
AllEnded(pending) == pending = {}

R_Select ==
    /\ pc = "r_fetch"
    /\ AllEnded(rad.pending)
    /\ LET candidates == RadarrCandidates(rad.movies, rad.listed, rad.fetched,
                                          rad.q_scores, rad.tag_id)
           k == SampleSize(cfg.radarr.num_to_upgrade, candidates)
           collected == [rad EXCEPT !.collected = TRUE, !.candidates = candidates]
       IN IF NoCandidates(candidates)
            THEN /\ RadarrEnds("no_candidates")
                 /\ rad' = collected
                 /\ UNCHANGED RECENT_UPGRADES
          ELSE IF SampleRaises(DOMAIN candidates, k)
            THEN /\ RadarrEnds("ValueError")
                 /\ rad' = collected
                 /\ UNCHANGED RECENT_UPGRADES
          ELSE \E selected_ids \in Sample(DOMAIN candidates, k) :
                 /\ rad' = [collected EXCEPT !.selected_ids = selected_ids, !.i = 1]
                 /\ RECENT_UPGRADES' = [RECENT_UPGRADES EXCEPT !.radarr = Cleared(@)]
                 /\ pc' = IF k = 0 THEN "r_search" ELSE "r_fresh"
                 /\ UNCHANGED outcome
    /\ UNCHANGED <<cfg, webVars, serveVars, tc, hist, failures, radarrVars, sonarrVars, son, searches, reqs, pre>>

\* run_radarr_upgrade, line 376: GET /movie/{id}
R_Fresh ==
    /\ pc = "r_fresh"
    /\ \E ok \in Results :
         /\ Sent(ok, "radarr GET /movie/id")
         /\ IF ~ok THEN RadarrEnds("HTTPError") /\ UNCHANGED rad
            ELSE /\ rad' = [rad EXCEPT !.m = movie[rad.selected_ids[rad.i]]]
                 /\ pc' = "r_update"
                 /\ UNCHANGED outcome
    /\ UNCHANGED <<cfg, webVars, serveVars, tc, hist, radarrVars, sonarrVars, son, RECENT_UPGRADES, searches, pre>>

\* run_radarr_upgrade, lines 377-380: PUT /movie/{id} with the tag added
R_Update ==
    /\ pc = "r_update"
    /\ \E ok \in Results :
         /\ Sent(ok, "radarr PUT /movie")
         /\ IF ~ok
              THEN RadarrEnds("HTTPError") /\ UNCHANGED <<rad, movie, RECENT_UPGRADES, hist>>
              ELSE LET mid == rad.selected_ids[rad.i]
                       m == [rad.m EXCEPT !.tags = Tagged(@, rad.tag_id)]
                   IN /\ movie' = [movie EXCEPT ![mid] = Stored(@, m)]
                      /\ hist' = [hist EXCEPT !.now = @ \cup {mid}]
                      /\ RECENT_UPGRADES' =
                           [RECENT_UPGRADES EXCEPT !.radarr =
                              Append(@, [id |-> mid, title |-> rad.candidates[mid].title])]
                      /\ rad' = [rad EXCEPT !.m = m, !.i = @ + 1]
                      /\ pc' = IF rad.i = Len(rad.selected_ids) THEN "r_search" ELSE "r_fresh"
                      /\ UNCHANGED outcome
    /\ UNCHANGED <<cfg, webVars, serveVars, tc, rTags, movieFile, sonarrVars, son, searches, pre>>

\* run_radarr_upgrade, lines 382-383: POST /command MoviesSearch
R_Search ==
    /\ pc = "r_search"
    /\ \E ok \in Results :
         /\ Sent(ok, "radarr POST /command")
         /\ IF ~ok THEN RadarrEnds("HTTPError") /\ UNCHANGED searches
            ELSE /\ searches' = [searches EXCEPT !.radarr = Append(@, rad.selected_ids)]
                 /\ RadarrEnds("searched")
    /\ UNCHANGED <<cfg, webVars, serveVars, tc, hist, radarrVars, sonarrVars, rad, son, RECENT_UPGRADES, pre>>

\* run_sonarr_upgrade returns, or raises into main's except (lines 880-881):
\* main is over
SonarrEnds(how) ==
    /\ outcome' = [outcome EXCEPT !.sonarr = how]
    /\ pc' = "idle"

\* run_sonarr_upgrade, lines 438-440
S_Entry ==
    /\ pc = "s_entry"
    /\ IF cfg.sonarr.enabled
         THEN pc' = "s_ensure_tag" /\ UNCHANGED outcome
         ELSE SonarrEnds("disabled")
    /\ UNCHANGED <<cfg, webVars, serveVars, tc, hist, failures, radarrVars, sonarrVars, rad, son, RECENT_UPGRADES,
                   searches, reqs, pre>>

\* ensure_tag, lines 207-212: GET /tag and the lookup by label
S_EnsureTagGet ==
    /\ pc = "s_ensure_tag"
    /\ \E ok \in Results :
         /\ Sent(ok, "sonarr GET /tag")
         /\ IF ~ok THEN SonarrEnds("HTTPError") /\ UNCHANGED son
            ELSE LET match == FindTag(TagList(sTags), cfg.tag_name) IN
                 /\ UNCHANGED outcome
                 /\ IF match # None
                      THEN son' = [son EXCEPT !.tag_id = match] /\ pc' = "s_profiles"
                      ELSE UNCHANGED son /\ pc' = "s_create_tag"
    /\ UNCHANGED <<cfg, webVars, serveVars, tc, hist, radarrVars, sonarrVars, rad, RECENT_UPGRADES, searches, pre>>

\* ensure_tag, lines 213-216: POST /tag
S_EnsureTagPost ==
    /\ pc = "s_create_tag"
    /\ FreeTagIds(sTags) # {}
    /\ \E ok \in Results :
         /\ Sent(ok, "sonarr POST /tag")
         /\ IF ~ok THEN SonarrEnds("HTTPError") /\ UNCHANGED <<son, sTags>>
            ELSE /\ sTags' = CreateTag(sTags, cfg.tag_name)
                 /\ son' = [son EXCEPT !.tag_id = NewTagId(sTags)]
                 /\ pc' = "s_profiles"
                 /\ UNCHANGED outcome
    /\ UNCHANGED <<cfg, webVars, serveVars, tc, hist, radarrVars, series, episodeFile, rad, RECENT_UPGRADES, searches, pre>>

\* collect_sonarr_upgrade_candidates, line 394: GET /qualityprofile
S_Profiles ==
    /\ pc = "s_profiles"
    /\ \E ok \in Results :
         /\ Sent(ok, "sonarr GET /qualityprofile")
         /\ IF ~ok THEN SonarrEnds("HTTPError") /\ UNCHANGED son
            ELSE /\ son' = [son EXCEPT !.q_scores = QualityProfiles]
                 /\ pc' = "s_series"
                 /\ UNCHANGED outcome
    /\ UNCHANGED <<cfg, webVars, serveVars, tc, hist, radarrVars, sonarrVars, rad, RECENT_UPGRADES, searches, pre>>

\* collect_sonarr_upgrade_candidates, lines 395-396: GET /series
S_SeriesList ==
    /\ pc = "s_series"
    /\ \E ok \in Results :
         /\ Sent(ok, "sonarr GET /series")
         /\ IF ~ok THEN SonarrEnds("HTTPError") /\ UNCHANGED son
            ELSE /\ son' = [son EXCEPT !.series_list = series, !.j = 1]
                 /\ pc' = "s_collect"
                 /\ UNCHANGED outcome
    /\ UNCHANGED <<cfg, webVars, serveVars, tc, hist, radarrVars, sonarrVars, rad, RECENT_UPGRADES, searches, pre>>

\* collect_sonarr_upgrade_candidates, lines 398-428: one turn of the loop over
\* the series; GET /episodefile?seriesId= unless the series is passed over, and
\* a request that raises is logged and the series passed over (lines 412-414)
S_EpisodeFiles ==
    /\ pc = "s_collect"
    /\ son.j <= Len(son.series_list)
    /\ LET serie == son.series_list[son.j] IN
       IF SeriesSkipped(serie, son.tag_id)
         THEN /\ son' = [son EXCEPT !.j = @ + 1]
              /\ UNCHANGED <<failures, reqs>>
         ELSE \E ok \in Results :
                /\ Sent(ok, "sonarr GET /episodefile")
                /\ son' = [son EXCEPT
                             !.j = @ + 1,
                             !.unfetched = IF ok THEN @ ELSE @ \cup {serie.id},
                             !.candidates =
                                IF ok
                                  THEN Merge(@, SeriesCandidates(
                                                  serie, EpisodeFilesOf(episodeFile, serie.id),
                                                  son.q_scores))
                                  ELSE @]
    /\ UNCHANGED <<cfg, webVars, serveVars, tc, hist, pc, radarrVars, sonarrVars, rad, RECENT_UPGRADES, searches,
                   outcome, pre>>

\* collect_sonarr_upgrade_candidates returns (lines 430-434), then
\* run_sonarr_upgrade, lines 446-455: the selection
S_Select ==
    /\ pc = "s_collect"
    /\ son.j > Len(son.series_list)
    /\ LET k == SampleSize(cfg.sonarr.num_to_upgrade, son.candidates)
           collected == [son EXCEPT !.collected = TRUE]
       IN IF NoCandidates(son.candidates)
            THEN /\ SonarrEnds("no_candidates")
                 /\ son' = collected
                 /\ UNCHANGED RECENT_UPGRADES
          ELSE IF SampleRaises(DOMAIN son.candidates, k)
            THEN /\ SonarrEnds("ValueError")
                 /\ son' = collected
                 /\ UNCHANGED RECENT_UPGRADES
          ELSE \E selected_ids \in Sample(DOMAIN son.candidates, k) :
                 /\ son' = [collected EXCEPT !.selected_ids = selected_ids, !.i = 1]
                 /\ RECENT_UPGRADES' = [RECENT_UPGRADES EXCEPT !.sonarr = Cleared(@)]
                 /\ pc' = IF k = 0 THEN "s_search" ELSE "s_fresh"
                 /\ UNCHANGED outcome
    /\ UNCHANGED <<cfg, webVars, serveVars, tc, hist, failures, radarrVars, sonarrVars, rad, searches, reqs, pre>>

\* run_sonarr_upgrade, lines 457-458: GET /series/{id} of the selected file's series
S_Fresh ==
    /\ pc = "s_fresh"
    /\ \E ok \in Results :
         /\ Sent(ok, "sonarr GET /series/id")
         /\ IF ~ok THEN SonarrEnds("HTTPError") /\ UNCHANGED son
            ELSE /\ son' = [son EXCEPT
                              !.serie = series[son.candidates[son.selected_ids[son.i]].seriesId]]
                 /\ pc' = "s_update"
                 /\ UNCHANGED outcome
    /\ UNCHANGED <<cfg, webVars, serveVars, tc, hist, radarrVars, sonarrVars, rad, RECENT_UPGRADES, searches, pre>>

\* run_sonarr_upgrade, lines 459-467: PUT /series/{id} with the tag added
S_Update ==
    /\ pc = "s_update"
    /\ \E ok \in Results :
         /\ Sent(ok, "sonarr PUT /series")
         /\ IF ~ok
              THEN SonarrEnds("HTTPError") /\ UNCHANGED <<son, series, RECENT_UPGRADES>>
              ELSE LET ep_id == son.selected_ids[son.i]
                       serie == [son.serie EXCEPT !.tags = Tagged(@, son.tag_id)]
                   IN /\ series' = [series EXCEPT ![serie.id] = Stored(@, serie)]
                      /\ RECENT_UPGRADES' =
                           [RECENT_UPGRADES EXCEPT !.sonarr =
                              Append(@, [id |-> ep_id,
                                         title |-> son.candidates[ep_id].title,
                                         seriesId |-> serie.id])]
                      /\ IF son.i = Len(son.selected_ids)
                           THEN son' = [son EXCEPT !.serie = serie, !.i = 1]
                                /\ pc' = "s_resolve"
                           ELSE son' = [son EXCEPT !.serie = serie, !.i = @ + 1]
                                /\ pc' = "s_fresh"
                      /\ UNCHANGED outcome
    /\ UNCHANGED <<cfg, webVars, serveVars, tc, hist, radarrVars, sTags, episodeFile, rad, searches, pre>>

\* episode_ids_for_episodefile, lines 471-480, called at lines 483-484: GET
\* /episode?episodeFileId=; a request that raises is logged and yields []
S_Resolve ==
    /\ pc = "s_resolve"
    /\ \E ok \in Results, res \in Orders(EpisodeIdsOf(son.selected_ids[son.i])) :
         /\ Sent(ok, "sonarr GET /episode")
         /\ son' = [son EXCEPT
                      !.i = @ + 1,
                      !.all_episode_ids =
                         IF ok /\ son.selected_ids[son.i] \in DOMAIN episodeFile
                           THEN @ \o res
                           ELSE @]
         /\ pc' = IF son.i = Len(son.selected_ids) THEN "s_search" ELSE "s_resolve"
    /\ UNCHANGED <<cfg, webVars, serveVars, tc, hist, radarrVars, sonarrVars, rad, RECENT_UPGRADES, searches, outcome, pre>>

\* run_sonarr_upgrade, lines 485-491: POST /command EpisodeSearch, or no request
S_Search ==
    /\ pc = "s_search"
    /\ LET all_episode_ids == SortedSet(son.all_episode_ids) IN
       IF all_episode_ids = <<>>
         THEN /\ SonarrEnds("no_episode_ids")
              /\ UNCHANGED <<failures, reqs, searches>>
         ELSE \E ok \in Results :
                /\ Sent(ok, "sonarr POST /command")
                /\ IF ~ok THEN SonarrEnds("HTTPError") /\ UNCHANGED searches
                   ELSE /\ searches' = [searches EXCEPT !.sonarr = Append(@, all_episode_ids)]
                        /\ SonarrEnds("searched")
    /\ UNCHANGED <<cfg, webVars, serveVars, tc, hist, radarrVars, sonarrVars, rad, son, RECENT_UPGRADES, pre>>

Next ==
    \/ Main
    \/ R_Entry \/ R_EnsureTagGet \/ R_EnsureTagPost \/ R_Movies \/ R_Reset
    \/ R_Profiles \/ R_List \/ R_FetchScore \/ R_Select \/ R_Fresh \/ R_Update \/ R_Search
    \/ S_Entry \/ S_EnsureTagGet \/ S_EnsureTagPost \/ S_Profiles \/ S_SeriesList
    \/ S_EpisodeFiles \/ S_Select \/ S_Fresh \/ S_Update \/ S_Resolve \/ S_Search

Spec == Init /\ [][Next]_vars

\* cron starts main every few minutes, and a started run is carried on
FairSpec == Spec /\ WF_vars(Next)

\* the same runs over libraries whose movies bear tags of their users
SpecLabels == InitLabels /\ [][Next]_vars

\* ------------------------------------------------- web_service.py, trigger
\* Each await is a point where the event loop may run another handler or task;
\* the code between two awaits runs without interruption.
engineVars == <<cfg, pc, failures, radarrVars, sonarrVars, rad, son, RECENT_UPGRADES,
                searches, reqs, outcome, pre, hist>>

\* app.py, lines 342 and 437: each cycle has one required parameter, cfg
RequiredArgs == 1
\* web_service.py, lines 72 and 76: the calls pass no argument
PassedArgs == 0
\* Python binds the arguments before the body runs: TypeError when one is missing
CallRaises == PassedArgs < RequiredArgs

\* line 105: body.target or "both"
TargetOrBoth(target) == IF target = "" THEN "both" ELSE target

\* lines 70 and 74: target in (kind, "both")
Kinds == <<"radarr", "sonarr">>
Runs(kind, target) == target \in {kind, "both"}
PastKinds == Len(Kinds) + 1
\* the next of the two ifs, from position at on, whose condition holds
NextAt(target, at) ==
    LET todo == {i \in at..Len(Kinds) : Runs(Kinds[i], target)} IN
    IF todo = {} THEN PastKinds ELSE CHOOSE i \in todo : \A k \in todo : i <= k

Event(kind, data) == [event |-> kind, data |-> data]

\* faulty variant of asyncio.Lock.acquire: the lock is handed out whatever its state
CanAcquireAlways(lock) == TRUE
\* asyncio.Lock.acquire as entered by line 104: taken at once if the lock is
\* free and nobody waits for it
CanAcquire(lock) == ~lock.locked /\ lock.waiters = <<>>

\* trigger, lines 98-108: 409 if the lock is held; otherwise the status is set
\* to running, the job is handed to the background tasks, and 200 is returned
Triggered(r, target) ==
    IF RUN_LOCK.locked
    THEN /\ job' = [job EXCEPT ![r].pc = "rejected", ![r].response = 409]
         /\ UNCHANGED LAST_STATUS
    ELSE /\ LAST_STATUS' = [started |-> r, finished |-> None, running |-> TRUE,
                            last_result |-> "None"]
         /\ job' = [job EXCEPT ![r].pc = "accepted", ![r].response = 200,
                               ![r].target = TargetOrBoth(target)]
\* the r-th request to POST /api/trigger is handled
Trigger(r, target) ==
    /\ job[r].pc = "new"
    /\ \A q \in Requests : q < r => job[q].pc # "new"
    /\ Triggered(r, target)
    /\ UNCHANGED <<engineVars, serveVars, tc, RUN_LOCK, EVENT_QUEUE>>

\* _job, line 104: the background task starts and enters async with RUN_LOCK
J_Acquire(r) ==
    /\ job[r].pc = "accepted"
    /\ IF CanAcquire(RUN_LOCK)
       THEN /\ RUN_LOCK' = [RUN_LOCK EXCEPT !.locked = TRUE]
            /\ job' = [job EXCEPT ![r].pc = "run_start"]
       ELSE /\ RUN_LOCK' = [RUN_LOCK EXCEPT !.waiters = Append(@, r)]
            /\ job' = [job EXCEPT ![r].pc = "waiting"]
    /\ UNCHANGED <<engineVars, serveVars, tc, LAST_STATUS, EVENT_QUEUE>>

\* _job, line 104: the first waiter is woken by a release and takes the lock
J_Wake(r) ==
    /\ job[r].pc = "waiting"
    /\ ~RUN_LOCK.locked
    /\ RUN_LOCK.waiters # <<>> /\ Head(RUN_LOCK.waiters) = r
    /\ RUN_LOCK' = [locked |-> TRUE, waiters |-> Tail(RUN_LOCK.waiters)]
    /\ job' = [job EXCEPT ![r].pc = "run_start"]
    /\ UNCHANGED <<engineVars, serveVars, tc, LAST_STATUS, EVENT_QUEUE>>

\* _run_and_stream, line 68
J_RunStart(r) ==
    /\ job[r].pc = "run_start"
    /\ EVENT_QUEUE' = Append(EVENT_QUEUE, Event("info", <<"run_start", job[r].target>>))
    /\ job' = [job EXCEPT ![r].pc = "announce"]
    /\ UNCHANGED <<engineVars, serveVars, tc, RUN_LOCK, LAST_STATUS>>

\* _run_and_stream, lines 70-71, 74-75 and 78-79: the next kind the target
\* names is announced, or, none being left, the run is reported done
J_Announce(r) ==
    /\ job[r].pc = "announce"
    /\ LET at == NextAt(job[r].target, job[r].at) IN
       IF at < PastKinds
       THEN /\ EVENT_QUEUE' = Append(EVENT_QUEUE, Event("info", <<"starting", Kinds[at]>>))
            /\ job' = [job EXCEPT ![r].pc = "call", ![r].at = at]
       ELSE /\ EVENT_QUEUE' = Append(EVENT_QUEUE, Event("done", <<"ok">>))
            /\ job' = [job EXCEPT ![r].pc = "finish", ![r].at = at, ![r].res = "ok",
                                  ![r].terminal = @ + 1]
    /\ UNCHANGED <<engineVars, serveVars, tc, RUN_LOCK, LAST_STATUS>>

\* faulty variant of line 80: the except clause catches nothing
CaughtNever(exc) == FALSE
\* line 80: except Exception, which every error a cycle can raise is
Caught(exc) == exc \in {"TypeError", "HTTPError", "ValueError"}

\* _run_and_stream, lines 72 and 76, then 80-82: the cycle is called without
\* its cfg, the call raises before the cycle's body runs, and the one except
\* clause of the function reports the error and ends the run. (An error not
\* caught would leave _run_and_stream and _job, async with releasing the lock
\* on the way out.)
CallEnds(r) ==
    /\ CallRaises
    /\ IF Caught("TypeError")
       THEN /\ EVENT_QUEUE' = Append(EVENT_QUEUE, Event("error", <<"TypeError">>))
            /\ job' = [job EXCEPT ![r].pc = "finish", ![r].res = "error",
                                  ![r].terminal = @ + 1,
                                  ![r].attempted = @ \cup {Kinds[job[r].at]}]
            /\ UNCHANGED RUN_LOCK
       ELSE /\ job' = [job EXCEPT ![r].pc = "escaped",
                                  ![r].attempted = @ \cup {Kinds[job[r].at]}]
            /\ RUN_LOCK' = [RUN_LOCK EXCEPT !.locked = FALSE]
            /\ UNCHANGED EVENT_QUEUE
    /\ UNCHANGED <<engineVars, serveVars, tc, LAST_STATUS>>

\* _run_and_stream, lines 72 and 76, as one step of the event loop
J_Call(r) ==
    /\ job[r].pc = "call"
    /\ CallEnds(r)

\* _job, line 106, and the end of async with: the status is closed and the lock
\* released
J_Finish(r) ==
    /\ job[r].pc = "finish"
    /\ LAST_STATUS' = [LAST_STATUS EXCEPT !.finished = r, !.running = FALSE,
                                          !.last_result = job[r].res]
    /\ RUN_LOCK' = [RUN_LOCK EXCEPT !.locked = FALSE]
    /\ job' = [job EXCEPT ![r].pc = "done"]
    /\ UNCHANGED <<engineVars, serveVars, tc, EVENT_QUEUE>>

InitCoord ==
    /\ NoLibraries
    /\ cfg = Config(TRUE, 1, TRUE, 1)
    /\ InitEngine
    /\ InitWeb
    /\ InitServe
    /\ tc = TcInit

NextCoord ==
    \E r \in Requests :
       \/ \E target \in Targets : Trigger(r, target)
       \/ J_Acquire(r)
       \/ J_Wake(r)
       \/ J_RunStart(r)
       \/ J_Announce(r)
       \/ J_Call(r)
       \/ J_Finish(r)

SpecCoord == InitCoord /\ [][NextCoord]_vars

\* the event loop runs every task that is ready: a background job that can take
\* a step takes it (requests arrive or not, as the callers please)
JobStep(r) ==
    J_Acquire(r) \/ J_Wake(r) \/ J_RunStart(r) \/ J_Announce(r) \/ J_Call(r) \/ J_Finish(r)
FairCoord == SpecCoord /\ \A r \in Requests : WF_vars(JobStep(r))

\* ---------------------------------------------------- ensure_tag, by itself
\* A caller that calls ensure_tag(label) MaxCalls times in succession on the
\* tag store of one service, with nobody else writing to the store.
Labels == {UPGRADE_TAG, OtherLabel}

\* the call has ended: the caller goes on to its next call, if it has one
NextCall(t) ==
    IF t.call < MaxCalls THEN [t EXCEPT !.call = @ + 1, !.pc = "get"]
    ELSE [t EXCEPT !.pc = "done"]

\* ensure_tag, lines 207-212: GET /tag and the lookup by label
T_Get ==
    /\ tc.pc = "get"
    /\ \E ok \in Results :
         /\ Sent(ok, "radarr GET /tag")
         /\ IF ~ok THEN tc' = NextCall([tc EXCEPT !.raised = @ + 1])
            ELSE LET match == FindTag(TagList(rTags), tc.label) IN
                 IF match # None
                 THEN tc' = NextCall([tc EXCEPT !.returned = Append(@, match)])
                 ELSE tc' = [tc EXCEPT !.pc = "post"]
    /\ UNCHANGED <<cfg, pc, radarrVars, sonarrVars, rad, son, RECENT_UPGRADES, searches,
                   outcome, pre, hist, webVars, serveVars>>

\* ensure_tag, lines 213-216: POST /tag and the id of the answer
T_Post ==
    /\ tc.pc = "post"
    /\ FreeTagIds(rTags) # {}
    /\ \E ok \in Results :
         /\ Sent(ok, "radarr POST /tag")
         /\ IF ~ok
            THEN /\ tc' = NextCall([tc EXCEPT !.raised = @ + 1, !.posts = @ + 1])
                 /\ UNCHANGED rTags
            ELSE /\ rTags' = CreateTag(rTags, tc.label)
                 /\ tc' = NextCall([tc EXCEPT !.returned = Append(@, NewTagId(rTags)),
                                              !.posts = @ + 1])
    /\ UNCHANGED <<cfg, pc, movie, movieFile, sonarrVars, rad, son, RECENT_UPGRADES,
                   searches, outcome, pre, hist, webVars, serveVars>>

InitTag ==
    /\ rTags \in [TagIds -> Labels \cup {NoLabel}]
    /\ FreeTagIds(rTags) # {}
    /\ movie = <<>> /\ movieFile = <<>>
    /\ sTags = NoTags /\ series = <<>> /\ episodeFile = <<>>
    /\ cfg = Config(TRUE, 1, TRUE, 1)
    /\ InitEngine
    /\ InitWeb
    /\ InitServe
    /\ \E label \in Labels :
         tc = [TcInit EXCEPT !.label = label, !.pc = "get", !.call = 1,
                             !.existed = \E t \in TagIds : rTags[t] = label]

NextTag == T_Get \/ T_Post

SpecTag == InitTag /\ [][NextTag]_vars

\* ---------------------------------------------------- web_service.py, _auth
\* Header values and the secret are sequences of characters; addresses and
\* allow-list entries are texts, parsed by the tables below.
LowerChar(c) ==
    CASE c = "B" -> "b" [] c = "E" -> "e" [] c = "A" -> "a" [] c = "R" -> "r"
      [] c = "S" -> "s" [] c = "I" -> "i" [] c = "C" -> "c" [] OTHER -> c
\* str.lower
Lower(s) == [i \in 1..Len(s) |-> LowerChar(s[i])]
\* str.startswith
StartsWith(s, prefix) == Len(s) >= Len(prefix) /\ SubSeq(s, 1, Len(prefix)) = prefix
\* s.split(" ", 1)[1]: what follows the first blank (there is one where this is used)
AfterFirstBlank(s) ==
    LET at == CHOOSE i \in 1..Len(s) : s[i] = " " /\ \A j \in 1..(i - 1) : s[j] # " "
    IN SubSeq(s, at + 1, Len(s))
\* str.strip
RECURSIVE Strip(_)
Strip(s) ==
    IF s = <<>> THEN s
    ELSE IF Head(s) = " " THEN Strip(Tail(s))
    ELSE IF s[Len(s)] = " " THEN Strip(SubSeq(s, 1, Len(s) - 1))
    ELSE s

\* _ct_equals, lines 30-31: hmac.compare_digest of the two encodings
CtEquals(a, b) == a = b

\* ipaddress.ip_address: the address as a number (its low 16 bits), or nothing
\* for a text that is no address (ValueError)
IpAddress(ip) ==
    CASE ip = "10.0.0.1" -> {1} [] ip = "10.0.0.2" -> {2} [] ip = "10.0.1.1" -> {257}
      [] OTHER -> {}
\* ipaddress.ip_network(net, strict=False): the addresses of the network (host
\* bits of the text masked out), or nothing for a text that is no network
IpNetwork(net) ==
    CASE net = "10.0.0.0/30" -> {[base |-> 0, size |-> 4]}
      [] net = "10.0.0.1/30" -> {[base |-> 0, size |-> 4]}
      [] net = "10.0.0.2" -> {[base |-> 2, size |-> 1]}
      [] OTHER -> {}
InNetwork(a, n) == n.base <= a /\ a < n.base + n.size

\* _client_allowed, lines 33-47
ClientAllowed(ip, allowed) ==
    IF allowed = <<>> THEN TRUE
    ELSE IF IpAddress(ip) = {} THEN FALSE
    ELSE \E i \in 1..Len(allowed) :
            IF IpNetwork(allowed[i]) # {}
              THEN \E a \in IpAddress(ip), n \in IpNetwork(allowed[i]) : InNetwork(a, n)
              ELSE ip = allowed[i]

BearerPrefix == <<"b", "e", "a", "r", "e", "r", " ">>

\* _auth, lines 49-62: the status of the HTTPException raised, or None
Auth(request, token, allowed) ==
    LET client_ip == IF request.forwarded = "absent" THEN request.host
                     ELSE request.forwarded
        auth == request.authorization.text
    IN IF ~ClientAllowed(client_ip, allowed) THEN 403
       ELSE IF token = <<>> THEN 503
       ELSE IF ~StartsWith(Lower(auth), BearerPrefix) THEN 401
       ELSE IF ~CtEquals(Strip(AfterFirstBlank(auth)), token) THEN 401
       ELSE None

\* the routes under /api and /healthz, and those declared with Depends(_auth)
Endpoints == {"healthz", "status", "upgrade-summary", "trigger", "events", "eligible",
              "recent-upgrades", "download-queue", "upgrade-item", "force-upgrade-item"}
AuthDependent == {"status", "upgrade-summary", "trigger", "eligible", "recent-upgrades",
                  "download-queue", "upgrade-item", "force-upgrade-item"}

\* the requests of the model: an Authorization header, with the bearer token it
\* carries (none: the empty sequence), and the addresses of the caller
Bearer == <<"B", "e", "a", "r", "e", "r">>
Blank == <<" ">>
Key == <<"k">>
OtherKey == <<"x">>
Authorizations ==
    { [text |-> <<>>, bearer |-> <<>>],
      [text |-> Bearer \o Blank \o Key, bearer |-> Key],
      [text |-> Lower(Bearer) \o Blank \o Key, bearer |-> Key],
      [text |-> <<"B", "E", "A", "R", "E", "R">> \o Blank \o Key, bearer |-> Key],
      [text |-> Bearer \o Blank \o Blank \o Key \o Blank, bearer |-> Key],
      [text |-> Bearer \o Blank \o OtherKey, bearer |-> OtherKey],
      [text |-> <<"B", "a", "s", "i", "c">> \o Blank \o Key, bearer |-> <<>>],
      [text |-> Bearer, bearer |-> <<>>],
      [text |-> Bearer \o Blank, bearer |-> <<>>],
      [text |-> Bearer \o Key, bearer |-> <<>>],
      [text |-> Key, bearer |-> <<>>] }
Hosts == {"10.0.0.1", "10.0.1.1"}
Forwarded == {"absent", "10.0.0.2", "10.0.1.1", "bogus"}
Secrets == {<<>>, Key, OtherKey}
AllowLists == {<<>>, <<"10.0.0.0/30">>, <<"10.0.0.2">>, <<"bogus", "10.0.0.1/30">>, <<"bogus">>}

\* ------------------------------------------------------- app.py, HttpClient
\* One request of the session built at lines 144-158: the adapter sends it,
\* and sends it again as long as the Retry object of lines 145-154 allows.
MAX_RETRIES == 3
Methods == {"GET", "POST", "PUT", "DELETE"}
\* line 151
AllowedMethods == {"GET", "POST", "PUT", "DELETE"}
\* line 152
StatusForcelist == {429, 500, 502, 503, 504}
\* what one attempt can meet: no connection, or an answer with a status
Statuses == {200, 404} \cup StatusForcelist
Outcomes == {[kind |-> "connect", status |-> None]}
              \cup {[kind |-> "status", status |-> c] : c \in Statuses}

\* Retry(total=MAX_RETRIES, connect=MAX_RETRIES, read=MAX_RETRIES,
\*       status=MAX_RETRIES), lines 145-149
NewRetry(n) == [total |-> n, connect |-> n, read |-> n, status |-> n]
\* Retry.increment: the total and the counter of the kind of failure go down by one
Increment(retries, kind) ==
    [retries EXCEPT !.total = @ - 1, ![kind] = @ - 1]
\* faulty variant of Retry.is_exhausted: a counter at zero already counts as used up
IsExhaustedAtZero(retries) ==
    \E c \in {"total", "connect", "read", "status"} : retries[c] <= 0
\* Retry.is_exhausted: some counter is below zero
IsExhausted(retries) ==
    \E c \in {"total", "connect", "read", "status"} : retries[c] < 0
\* Retry.is_retry, with line 151 and line 152
IsRetry(method, status) == method \in AllowedMethods /\ status \in StatusForcelist
\* Response.raise_for_status, line 164
RaisesForStatus(status) == 400 <= status /\ status < 600

\* HttpClient._request, line 162: a request is handed to the session
H_Request(method, n) ==
    /\ att.pc = "idle"
    /\ att' = [NoAttempt EXCEPT !.pc = "sending", !.method = method, !.max_retries = n,
                                !.retries = NewRetry(n)]
    /\ UNCHANGED <<engineVars, webVars, tc, POLISHRR_TOKEN, ALLOWED_IPS, http, stream, poll, op, pool>>

\* one attempt of the adapter (line 155) and what follows it: a retry, the
\* error of the exhausted retries (raise_on_status=False, line 153: the last
\* answer is returned, and line 164 raises on it), or the answer (lines 164-171)
H_Attempt(result) ==
    /\ att.pc = "sending"
    /\ LET sent == [att EXCEPT !.attempts = @ + 1]
           after == Increment(att.retries, result.kind)
       IN IF result.kind = "connect"
          THEN att' = IF IsExhausted(after)
                      THEN [sent EXCEPT !.pc = "raised", !.error = "ConnectionError"]
                      ELSE [sent EXCEPT !.retries = after]
          ELSE IF IsRetry(att.method, result.status) /\ ~IsExhausted(after)
          THEN att' = [sent EXCEPT !.retries = after]
          ELSE IF RaisesForStatus(result.status)
          THEN att' = [sent EXCEPT !.pc = "raised", !.error = "HTTPError",
                                   !.status_code = result.status]
          ELSE att' = [sent EXCEPT !.pc = "returned", !.status_code = result.status]
    /\ UNCHANGED <<engineVars, webVars, tc, POLISHRR_TOKEN, ALLOWED_IPS, http, stream, poll, op, pool>>

InitHttp ==
    /\ NoLibraries
    /\ cfg = Config(TRUE, 1, TRUE, 1)
    /\ InitEngine
    /\ InitWeb
    /\ InitServe
    /\ tc = TcInit

NextHttp ==
    \/ \E method \in Methods, n \in 0..MAX_RETRIES : H_Request(method, n)
    \/ \E result \in Outcomes : H_Attempt(result)

SpecHttp == InitHttp /\ [][NextHttp]_vars

\* ------------------------------------------- web_service.py, the event stream
\* asyncio.Queue() of line 28 has no bound
MAXSIZE == 0
\* asyncio.Queue.full
Full(queue) == MAXSIZE > 0 /\ Len(queue) >= MAXSIZE
\* faulty variant of the popleft of get_nowait: the event stays in the queue
RestKept(queue) == queue
\* asyncio.Queue.get_nowait: the queue after its first event was taken out
Rest(queue) == Tail(queue)

\* events, lines 110-118: a client connects; gen has sent the start of the
\* stream and is about to call EVENT_QUEUE.get() (line 115)
E_Subscribe(s) ==
    /\ stream.sub[s].pc = "off"
    /\ stream' = [stream EXCEPT !.sub[s].pc = "get"]
    /\ UNCHANGED <<engineVars, webVars, tc, POLISHRR_TOKEN, ALLOWED_IPS, http, att, poll, op, pool>>

\* gen, lines 115-116: EVENT_QUEUE.get() is called, or goes on after its
\* wake-up. With an empty queue the caller joins the getters and waits;
\* otherwise it takes the first event and sends it to its client.
E_Get(s) ==
    /\ stream.sub[s].pc \in {"get", "woken"}
    /\ IF EVENT_QUEUE = <<>>
       THEN /\ stream' = [stream EXCEPT !.sub[s].pc = "waiting",
                                        !.getters = Append(@, s)]
            /\ UNCHANGED EVENT_QUEUE
       ELSE /\ stream' = [stream EXCEPT !.sub[s].pc = "get",
                                        !.sub[s].got = Append(@, Head(EVENT_QUEUE))]
            /\ EVENT_QUEUE' = Rest(EVENT_QUEUE)
    /\ UNCHANGED <<engineVars, tc, POLISHRR_TOKEN, ALLOWED_IPS, http, att, poll, op, pool,
                   RUN_LOCK, LAST_STATUS, job>>

\* _run_and_stream, lines 68-81: await EVENT_QUEUE.put(...) of one event, which
\* waits while the queue is full, and otherwise adds the event and wakes the
\* first getter. The events are numbered in the order of their publication.
E_Put(kind) ==
    /\ stream.published < MaxEvents
    /\ ~stream.blocked
    /\ IF Full(EVENT_QUEUE)
       THEN /\ stream' = [stream EXCEPT !.blocked = TRUE]
            /\ UNCHANGED EVENT_QUEUE
       ELSE /\ EVENT_QUEUE' = Append(EVENT_QUEUE, Event(kind, <<stream.published + 1>>))
            /\ stream' = IF stream.getters = <<>>
                         THEN [stream EXCEPT !.published = @ + 1]
                         ELSE [stream EXCEPT !.published = @ + 1,
                                             !.getters = Tail(@),
                                             !.sub[Head(stream.getters)].pc = "woken"]
    /\ UNCHANGED <<engineVars, tc, POLISHRR_TOKEN, ALLOWED_IPS, http, att, poll, op, pool,
                   RUN_LOCK, LAST_STATUS, job>>

InitEvents ==
    /\ NoLibraries
    /\ cfg = Config(TRUE, 1, TRUE, 1)
    /\ InitEngine
    /\ InitWeb
    /\ InitServe
    /\ tc = TcInit

NextEvents ==
    \/ \E s \in Subscribers : E_Subscribe(s) \/ E_Get(s)
    \/ \E kind \in {"info", "done", "error"} : E_Put(kind)

SpecEvents == InitEvents /\ [][NextEvents]_vars

\* ------------------------------------- web_service.py, requests during a run
\* _job is a coroutine, and lines 72 and 76 call the cycle as a plain function:
\* from the call to its return the event loop runs nothing else. Requests can
\* still be sent to the service in that time; they are handled when the loop is
\* free again.
LoopFree == \A r \in Requests : job[r].pc # "in_call"
InCycle == {r \in Requests : job[r].pc = "in_call"}

\* _run_and_stream, lines 72 and 76: the cycle is entered
P_Enter(r) ==
    /\ LoopFree
    /\ job[r].pc = "call"
    /\ job' = [job EXCEPT ![r].pc = "in_call"]
    /\ UNCHANGED <<engineVars, serveVars, tc, RUN_LOCK, LAST_STATUS, EVENT_QUEUE>>

\* _run_and_stream, lines 72 and 76, and line 80: the cycle ends
P_Return(r) ==
    /\ job[r].pc = "in_call"
    /\ CallEnds(r)

\* the steps the event loop takes between two calls of a cycle
P_Loop(r) ==
    /\ LoopFree
    /\ \/ \E target \in Targets : Trigger(r, target)
       \/ J_Acquire(r)
       \/ J_Wake(r)
       \/ J_RunStart(r)
       \/ J_Announce(r)
       \/ J_Finish(r)

\* a client sends GET /api/status, whatever the service is doing
P_Issue ==
    /\ poll.pc = "none"
    /\ poll' = [poll EXCEPT !.pc = "issued",
                            !.during = IF InCycle = {} THEN None
                                       ELSE CHOOSE r \in InCycle : TRUE]
    /\ UNCHANGED <<engineVars, webVars, tc, POLISHRR_TOKEN, ALLOWED_IPS, http, att, stream, op, pool>>

\* status, lines 90-92: the event loop runs the handler, which returns LAST_STATUS
P_Answer ==
    /\ LoopFree
    /\ poll.pc = "issued"
    /\ poll' = [poll EXCEPT !.pc = "answered",
                            !.in_cycle = poll.during \in InCycle,
                            !.running = LAST_STATUS.running]
    /\ UNCHANGED <<engineVars, webVars, tc, POLISHRR_TOKEN, ALLOWED_IPS, http, att, stream, op, pool>>

InitPoll == InitCoord

NextPoll ==
    \/ \E r \in Requests : P_Loop(r) \/ P_Enter(r) \/ P_Return(r)
    \/ P_Issue
    \/ P_Answer

SpecPoll == InitPoll /\ [][NextPoll]_vars

\* ------------------------------------------------- app.py, parallel_map
\* line 90: MAX_WORKERS = max(2, get_env_int("MAX_PARALLEL_REQUESTS", 8)); the
\* variable of the environment is unset (None) or holds a number
DEFAULT_PARALLEL_REQUESTS == 8
LEAST_WORKERS == 2
Max(a, b) == IF a < b THEN b ELSE a
MAX_WORKERS(env) ==
    Max(LEAST_WORKERS, IF env = None THEN DEFAULT_PARALLEL_REQUESTS ELSE env)
ParallelRequests == {None} \cup (1..MaxParallel)

\* faulty variant of the test below: a task starts as soon as it is submitted
WorkerAlwaysFree(running, max_workers) == TRUE
\* ThreadPoolExecutor(max_workers=max_workers), line 290: a queued task starts
\* when fewer than max_workers tasks are running
WorkerFree(running, max_workers) == Cardinality(running) < max_workers

poolFrame == <<engineVars, webVars, tc, POLISHRR_TOKEN, ALLOWED_IPS, http, att, stream, poll, op>>

\* parallel_map(func, items) is called, lines 287-290, in a process whose
\* environment holds env
PM_Call(n, env) ==
    /\ pool.pc \in {"idle", "returned"}
    /\ pool' = [NoPool EXCEPT !.pc = IF n = 0 THEN "join" ELSE "submit",
                              !.MAX_PARALLEL_REQUESTS = env,
                              !.max_workers = MAX_WORKERS(env),
                              !.items = n]
    /\ UNCHANGED poolFrame

\* line 291: pool.submit(func, item) for the next item
PM_Submit ==
    /\ pool.pc = "submit"
    /\ LET item == pool.submitted + 1 IN
       pool' = [pool EXCEPT !.submitted = item,
                            !.queue = Append(@, item),
                            !.pc = IF item = pool.items THEN "join" ELSE "submit"]
    /\ UNCHANGED poolFrame

\* a worker thread of the executor takes the oldest queued task
PM_Start ==
    /\ pool.queue # <<>>
    /\ WorkerFree(pool.running, pool.max_workers)
    /\ pool' = [pool EXCEPT !.queue = Tail(@), !.running = @ \cup {Head(pool.queue)}]
    /\ UNCHANGED poolFrame

\* func(item) returns or raises in its worker thread
PM_End(item, ok) ==
    /\ item \in pool.running
    /\ pool' = [pool EXCEPT !.running = @ \ {item},
                            !.ended = @ \cup {item},
                            !.raised = IF ok THEN @ ELSE @ \cup {item}]
    /\ UNCHANGED poolFrame

\* lines 292-296: as_completed yields a future that has ended; its result is
\* appended, or its exception logged
PM_Collect(item) ==
    /\ pool.pc = "join"
    /\ item \in pool.ended \ pool.yielded
    /\ pool' = [pool EXCEPT !.yielded = @ \cup {item},
                            !.results = IF item \in pool.raised THEN @ ELSE Append(@, item)]
    /\ UNCHANGED poolFrame

\* line 297: as_completed has yielded every future, the executor is shut down
\* and the results are returned
PM_Return ==
    /\ pool.pc = "join"
    /\ pool.yielded = 1..pool.items
    /\ pool' = [pool EXCEPT !.pc = "returned"]
    /\ UNCHANGED poolFrame

InitPool ==
    /\ NoLibraries
    /\ cfg = Config(TRUE, 1, TRUE, 1)
    /\ InitEngine
    /\ InitWeb
    /\ InitServe
    /\ tc = TcInit

NextPool ==
    \/ \E n \in 0..MaxItems, env \in ParallelRequests : PM_Call(n, env)
    \/ PM_Submit
    \/ PM_Start
    \/ \E item \in 1..MaxItems, ok \in BOOLEAN : PM_End(item, ok)
    \/ \E item \in 1..MaxItems : PM_Collect(item)
    \/ PM_Return

SpecPool == InitPool /\ [][NextPool]_vars

\* --------------------------------- app.py, operations beside the cycles
\* The web service runs upgrade_single_item, force_upgrade_single_item and the
\* queries in its own process, while cron runs main in another: their requests
\* to a catalog service interleave, and so do those of the service's users.
engineLocals == <<cfg, pc, rad, son, RECENT_UPGRADES, searches, reqs, outcome, pre, hist>>
opFrame == <<engineLocals, webVars, tc, POLISHRR_TOKEN, ALLOWED_IPS, http, att, stream, poll,
            pool>>

\* upgrade_single_item and force_upgrade_single_item; get_upgrade_status,
\* get_eligible_items and get_download_queue
ItemOps == {"upgrade-item", "force-upgrade-item"}
Queries == {"upgrade-summary", "eligible-items", "download-queue"}
OpNames == ItemOps \cup Queries
OpTargets == {"radarr", "sonarr", "movies"}
\* the episodes of the library
EpisodeIds == UNION {EpisodeIdsOf(f) : f \in 1..MaxFiles}
\* GET /episode/{id}: the episode, with its series and its file (every episode
\* of the libraries of SpecOps is one of series 1)
EpisodeSeriesId(e) == 1
EpisodeResource(e) ==
    LET files == {f \in DOMAIN episodeFile : e \in EpisodeIdsOf(f)}
    IN [id |-> e, seriesId |-> EpisodeSeriesId(e),
        episodeFileId |-> IF files = {} THEN None ELSE CHOOSE f \in files : TRUE]
ItemIds(target) ==
    IF target = "radarr" THEN DOMAIN movie
    ELSE IF target = "sonarr" THEN (IF DOMAIN series = {} THEN {} ELSE EpisodeIds)
    ELSE {1}
TagsOf(target) == IF target = "radarr" THEN rTags ELSE sTags

\* the operation returns or raises into its handler (web_service.py, lines
\* 142-150 and 159-162)
OpEnds(result) == op' = [NoOp EXCEPT !.result = result]

\* the first request of a query's part for one kind: get_download_queue lists
\* the queue of movies without asking for the tag (line 610)
PartEntry(name, kind) ==
    IF name = "download-queue" /\ kind = "radarr" THEN "queue" ELSE "ensure_tag"
\* a query has one part per kind, movies first, each in a try block of its own
\* and skipped when the kind is disabled (lines 509-511 and 548-549, 607-608
\* and 630-631, 695-696 and 723-724): the query as it enters the first part,
\* from position at on, whose kind is enabled, or as it returns
QueryFrom(name, at, errors) ==
    LET todo == {i \in at..Len(Kinds) : cfg[Kinds[i]].enabled} IN
    IF todo = {} THEN [NoOp EXCEPT !.result = "ok", !.errors = errors]
    ELSE LET kind == Kinds[CHOOSE i \in todo : \A k \in todo : i <= k] IN
         [NoOp EXCEPT !.name = name, !.target = kind, !.pc = PartEntry(name, kind),
                      !.errors = errors]
\* the part of one kind is over, by its end or by its except clause (lines
\* 543-545, 585-587, 625-627, 680-682, 718-720, 749-751), which leaves the
\* kind's error in the answer; the part of the other kind follows
PartOver(raised) ==
    op' = QueryFrom(op.name, IF op.target = "radarr" THEN 2 ELSE PastKinds,
                    IF raised THEN op.errors \cup {op.target} ELSE op.errors)
\* a request of the operation raised
OpRaises ==
    IF op.name \in Queries THEN PartOver(TRUE)
    ELSE OpEnds("HTTPError")
OpRequest(ok) == failures' = failures + (IF ok THEN 0 ELSE 1)
\* where the caller of ensure_tag goes on once it has the tag's id
AfterEnsureTag(name) ==
    IF name \in ItemOps THEN "fetch"
    ELSE IF name = "download-queue" THEN "queue"
    ELSE "profiles"

\* the operation as its first request is about to be sent, or as it has
\* returned without sending any: upgrade_single_item (lines 764-797),
\* force_upgrade_single_item (lines 800-835), get_upgrade_status (line 496),
\* get_eligible_items (line 687), get_download_queue (line 592; with
\* tagged_only it returns RECENT_UPGRADES, lines 597-601)
Called(name, target, item_id, tagged_only) ==
    IF name \in Queries
    THEN IF name = "download-queue" /\ tagged_only
         THEN [NoOp EXCEPT !.result = "ok"]
         ELSE QueryFrom(name, 1, {})
    ELSE IF target \notin {"radarr", "sonarr"}
    THEN [NoOp EXCEPT !.name = name, !.target = target, !.item_id = item_id,
                      !.result = "ValueError"]
    ELSE [NoOp EXCEPT !.name = name, !.target = target, !.item_id = item_id,
                      !.pc = IF name = "upgrade-item" THEN "ensure_tag" ELSE "fetch"]

\* one of the five operations is called
O_Call(name, target, item_id, tagged_only) ==
    /\ op.pc = "idle"
    /\ op' = Called(name, target, item_id, tagged_only)
    /\ UNCHANGED <<opFrame, failures, radarrVars, sonarrVars>>

\* ensure_tag, lines 207-212, called at lines 512, 551, 633, 698, 726, 772
\* and 782
O_EnsureTagGet ==
    /\ op.pc = "ensure_tag"
    /\ \E ok \in Results :
         /\ OpRequest(ok)
         /\ IF ~ok THEN OpRaises
            ELSE LET match == FindTag(TagList(TagsOf(op.target)), cfg.tag_name) IN
                 IF match = None
                 THEN op' = [op EXCEPT !.pc = "create_tag"]
                 ELSE op' = [op EXCEPT !.tag_id = match, !.pc = AfterEnsureTag(op.name)]
    /\ UNCHANGED <<opFrame, radarrVars, sonarrVars>>

\* ensure_tag, lines 213-216
O_EnsureTagPost ==
    /\ op.pc = "create_tag"
    /\ FreeTagIds(TagsOf(op.target)) # {}
    /\ \E ok \in Results :
         /\ OpRequest(ok)
         /\ IF ~ok THEN OpRaises /\ UNCHANGED <<rTags, sTags>>
            ELSE /\ op' = [op EXCEPT !.tag_id = NewTagId(TagsOf(op.target)),
                                     !.pc = AfterEnsureTag(op.name)]
                 /\ IF op.target = "radarr"
                    THEN rTags' = CreateTag(rTags, cfg.tag_name) /\ UNCHANGED sTags
                    ELSE sTags' = CreateTag(sTags, cfg.tag_name) /\ UNCHANGED rTags
    /\ UNCHANGED <<opFrame, movie, movieFile, series, episodeFile>>

\* quality_profiles_cutoff_scores (lines 179-181), called at lines 513, 552,
\* 699 and 727: GET /qualityprofile
O_Profiles ==
    /\ op.pc = "profiles"
    /\ \E ok \in Results :
         /\ OpRequest(ok)
         /\ IF ~ok THEN OpRaises
            ELSE op' = [op EXCEPT !.pc = "list"]
    /\ UNCHANGED <<opFrame, radarrVars, sonarrVars>>

\* the items of a listing whose files the query reads: the monitored movies
\* that have a file (lines 514 and 700); the series that have episode files
\* (lines 559-560) and, for get_eligible_items, do not bear the tag (lines
\* 731-735)
FilesToRead(name, target, listed, tag_id) ==
    IF target = "radarr" THEN Listed(listed)
    ELSE {x \in DOMAIN listed :
            /\ listed[x].episodeFileCount # 0
            /\ name = "eligible-items" => tag_id \notin listed[x].tags}

\* lines 514 and 700, GET /movie; lines 553 and 728, GET /series
O_List ==
    /\ op.pc = "list"
    /\ \E ok \in Results :
         /\ OpRequest(ok)
         /\ IF ~ok THEN OpRaises
            ELSE LET listed == IF op.target = "radarr" THEN movie ELSE series
                     todo == FilesToRead(op.name, op.target, listed, op.tag_id)
                 IN IF todo = {} THEN PartOver(FALSE)
                    ELSE op' = [op EXCEPT !.listed = listed, !.pending = todo,
                                          !.pc = "files"]
    /\ UNCHANGED <<opFrame, radarrVars, sonarrVars>>

\* fetch_tuple (lines 516-521 and 702-707) run by parallel_map, in any order:
\* GET /moviefile/{id} of a listed movie; a task that raises is logged (lines
\* 293-296) and the query goes on. Lines 562 and 738, in the order of the
\* listing: GET /episodefile of a series; a request that raises ends the part
O_Files ==
    /\ op.pc = "files"
    /\ IF op.target = "radarr"
       THEN \E i \in op.pending :
              \E ok \in ResultsOf(op.listed[i].movieFileId \in DOMAIN movieFile) :
                /\ OpRequest(ok)
                /\ IF op.pending = {i} THEN PartOver(FALSE)
                   ELSE op' = [op EXCEPT !.pending = @ \ {i}]
       ELSE LET x == CHOOSE y \in op.pending : \A z \in op.pending : y <= z IN
            \E ok \in Results :
              /\ OpRequest(ok)
              /\ IF ~ok THEN OpRaises
                 ELSE IF op.pending = {x} THEN PartOver(FALSE)
                 ELSE op' = [op EXCEPT !.pending = @ \ {x}]
    /\ UNCHANGED <<opFrame, radarrVars, sonarrVars>>

\* the series that the rows of a queue refer to
QueueAnswers == SUBSET DOMAIN series

\* queue (lines 183-190), called at lines 610 and 634: GET /queue. The rows of
\* the movies' queue are copied into the answer; each series that a row of the
\* episodes' queue refers to is fetched
O_Queue ==
    /\ op.pc = "queue"
    /\ \E ok \in Results :
         /\ OpRequest(ok)
         /\ IF ~ok THEN OpRaises
            ELSE IF op.target = "radarr" THEN PartOver(FALSE)
            ELSE \E items \in QueueAnswers :
                   IF items = {} THEN PartOver(FALSE)
                   ELSE op' = [op EXCEPT !.pending = items, !.pc = "queue_series"]
    /\ UNCHANGED <<opFrame, radarrVars, sonarrVars>>

\* get_download_queue, lines 644-649: GET /series/{id}, once per series of the
\* queue; a request that raises is logged and a placeholder is used
O_QueueSeries ==
    /\ op.pc = "queue_series"
    /\ \E x \in op.pending :
         \E ok \in ResultsOf(x \in DOMAIN series) :
           /\ OpRequest(ok)
           /\ IF op.pending = {x} THEN PartOver(FALSE)
              ELSE op' = [op EXCEPT !.pending = @ \ {x}]
    /\ UNCHANGED <<opFrame, radarrVars, sonarrVars>>

\* lines 773, 783-789, 809 and 822-824: GET /movie/{id} or GET /episode/{id}
O_Fetch ==
    /\ op.pc = "fetch"
    /\ \E ok \in ResultsOf(op.item_id \in ItemIds(op.target)) :
         /\ OpRequest(ok)
         /\ IF ~ok THEN OpRaises
            ELSE LET item == IF op.target = "radarr" THEN movie[op.item_id]
                             ELSE EpisodeResource(op.item_id)
                     file_id == IF op.target = "radarr" THEN item.movieFileId
                                ELSE item.episodeFileId
                 IN IF op.name = "force-upgrade-item"
                    THEN op' = IF file_id # None
                               THEN [op EXCEPT !.item = item, !.pc = "delete"]
                               ELSE [op EXCEPT !.pc = "search"]
                    ELSE IF op.target = "radarr"
                    THEN op' = [op EXCEPT !.item = item, !.pc = "update"]
                    ELSE IF item.seriesId = None
                    THEN OpEnds("ValueError")
                    ELSE op' = [op EXCEPT !.item = item, !.pc = "fetch_series"]
    /\ UNCHANGED <<opFrame, radarrVars, sonarrVars>>

\* upgrade_single_item, line 790: GET /series/{id}
O_FetchSeries ==
    /\ op.pc = "fetch_series"
    /\ \E ok \in ResultsOf(op.item.seriesId \in DOMAIN series) :
         /\ OpRequest(ok)
         /\ IF ~ok THEN OpRaises
            ELSE op' = [op EXCEPT !.item = series[op.item.seriesId], !.pc = "update"]
    /\ UNCHANGED <<opFrame, radarrVars, sonarrVars>>

\* upgrade_single_item, lines 774-775 and 791-792: the tag is added to the
\* tags that were fetched, and the resource is sent back
O_Update ==
    /\ op.pc = "update"
    /\ \E ok \in Results :
         /\ OpRequest(ok)
         /\ IF ~ok THEN OpRaises /\ UNCHANGED <<movie, series>>
            ELSE LET item == [op.item EXCEPT !.tags = Tagged(@, op.tag_id)] IN
                 /\ op' = [op EXCEPT !.item = <<>>, !.pc = "search"]
                 /\ IF op.target = "radarr"
                    THEN /\ movie' = [movie EXCEPT ![item.id] = Stored(@, item)]
                         /\ UNCHANGED series
                    ELSE /\ series' = [series EXCEPT ![item.id] = Stored(@, item)]
                         /\ UNCHANGED movie
    /\ UNCHANGED <<opFrame, rTags, movieFile, sTags, episodeFile>>

\* force_upgrade_single_item, lines 810-816 and 825-831: DELETE /moviefile/{id}
\* or DELETE /episodefile/{id}; a request that raises is logged
O_Delete ==
    /\ op.pc = "delete"
    /\ LET f == IF op.target = "radarr" THEN op.item.movieFileId
                ELSE op.item.episodeFileId
           held == IF op.target = "radarr" THEN f \in DOMAIN movieFile
                   ELSE f \in DOMAIN episodeFile
       IN \E ok \in ResultsOf(held) :
            /\ OpRequest(ok)
            /\ op' = [op EXCEPT !.item = <<>>, !.pc = "search"]
            /\ IF ~ok THEN UNCHANGED <<movie, movieFile, series, episodeFile>>
               ELSE IF op.target = "radarr"
               THEN /\ movieFile' = [g \in DOMAIN movieFile \ {f} |-> movieFile[g]]
                    /\ movie' = [i \in DOMAIN movie |->
                                   IF movie[i].movieFileId = f
                                   THEN [movie[i] EXCEPT !.movieFileId = None]
                                   ELSE movie[i]]
                    /\ UNCHANGED <<series, episodeFile>>
               ELSE /\ episodeFile' = [g \in DOMAIN episodeFile \ {f} |-> episodeFile[g]]
                    /\ series' = [x \in DOMAIN series |->
                                    IF episodeFile[f].seriesId = x
                                    THEN [series[x] EXCEPT !.episodeFileCount = @ - 1]
                                    ELSE series[x]]
                    /\ UNCHANGED <<movie, movieFile>>
    /\ UNCHANGED <<opFrame, rTags, sTags>>

\* lines 776, 793, 817 and 832: POST /command for the one item
O_Search ==
    /\ op.pc = "search"
    /\ \E ok \in Results :
         /\ OpRequest(ok)
         /\ IF ~ok THEN OpRaises
            ELSE OpEnds("ok")
    /\ UNCHANGED <<opFrame, radarrVars, sonarrVars>>

\* a user of the catalog service gives an item one more tag of the service
U_Tag(target, t) ==
    /\ TagsOf(target)[t] = OtherLabel
    /\ IF target = "radarr"
       THEN /\ \E i \in DOMAIN movie :
                 /\ t \notin movie[i].tags
                 /\ movie' = [movie EXCEPT ![i].tags = @ \cup {t}]
            /\ UNCHANGED series
       ELSE /\ \E x \in DOMAIN series :
                 /\ t \notin series[x].tags
                 /\ series' = [series EXCEPT ![x].tags = @ \cup {t}]
            /\ UNCHANGED movie
    /\ UNCHANGED <<opFrame, op, failures, rTags, movieFile, sTags, episodeFile>>

\* one kind is enabled: one movie with a file, or one series that owns every
\* episode file
InitOps ==
    /\ \/ /\ cfg = Config(TRUE, 1, FALSE, 1)
          /\ InitRadarr(1)
          /\ DOMAIN movie = {1} /\ movie[1].monitored /\ movie[1].movieFileId # None
          /\ InitSonarr(0, 0)
          /\ sTags = NoTags
       \/ /\ cfg = Config(FALSE, 1, TRUE, 1)
          /\ InitRadarr(0)
          /\ rTags = NoTags
          /\ InitSonarr(1, MaxFiles)
          /\ DOMAIN series = {1} /\ series[1].monitored
          /\ DOMAIN episodeFile = 1..MaxFiles
    /\ InitEngine
    /\ InitWeb
    /\ InitServe
    /\ tc = TcInit

\* the requests of an operation that is under way
OpRequests ==
    \/ O_EnsureTagGet \/ O_EnsureTagPost
    \/ O_Profiles \/ O_List \/ O_Files \/ O_Queue \/ O_QueueSeries
    \/ O_Fetch \/ O_FetchSeries \/ O_Update \/ O_Delete \/ O_Search

OpStep ==
    \/ \E name \in ItemOps, target \in OpTargets :
          \E item_id \in ItemIds(target) : O_Call(name, target, item_id, FALSE)
    \/ \E name \in Queries, tagged_only \in BOOLEAN : O_Call(name, "", None, tagged_only)
    \/ OpRequests

NextOps ==
    \/ Next
    \/ OpStep
    \/ \E target \in {"radarr", "sonarr"}, t \in TagIds : U_Tag(target, t)

SpecOps == InitOps /\ [][NextOps]_vars

\* ------------------------------------------- web_service.py, the handlers
\* what a request carries beside its headers: the JSON body of POST
\* /api/trigger (target; "": none given), of POST /api/upgrade-item and POST
\* /api/force-upgrade-item (target and id; "" and None: none given), and the
\* query string of GET /api/download-queue
NoBody == [target |-> "", id |-> None, tagged |-> FALSE, eligible |-> FALSE]
Bodies(endpoint) ==
    IF endpoint = "trigger" THEN {[NoBody EXCEPT !.target = t] : t \in Targets}
    ELSE IF endpoint \in {"upgrade-item", "force-upgrade-item"}
    THEN {[NoBody EXCEPT !.target = t, !.id = i] :
             t \in {""} \cup OpTargets, i \in {None, 1} \cup EpisodeIds}
    ELSE IF endpoint = "download-queue"
    THEN {[NoBody EXCEPT !.tagged = a, !.eligible = b] : a \in BOOLEAN, b \in BOOLEAN}
    ELSE {NoBody}

\* the routes whose handler calls an operation of app.py, and the operation:
\* lines 96, 123 (get_upgrade_status, with detailed=True the items are listed
\* in the answer), 131-133, 143 and 159
OpRoutes == {"upgrade-summary", "eligible", "download-queue", "upgrade-item",
             "force-upgrade-item"}
OpOf(endpoint, body) ==
    IF endpoint = "eligible" THEN "upgrade-summary"
    ELSE IF endpoint = "download-queue"
    THEN (IF body.eligible THEN "eligible-items" ELSE "download-queue")
    ELSE endpoint
\* upgrade_item and force_upgrade_item, lines 139-140 and 156-157
MissingTargetOrId(endpoint, body) ==
    endpoint \in ItemOps /\ (body.target = "" \/ body.id = None)

\* a request to one route: the dependency _auth runs first where it is declared,
\* and the handler runs (the request is served) unless _auth raised. The
\* handlers of /healthz, /api/status, /api/recent-upgrades and /api/events
\* answer at once; trigger (lines 100-108) answers 409, or sets the status and
\* queues the job, which runs once the answer is sent; upgrade_item and
\* force_upgrade_item answer 400 to a body without target or id; the other
\* handlers call their operation and answer when it has ended (Respond).
\* _auth keeps nothing from one request to the next, so a behaviour holds one
\* request.
Request(endpoint, authorization, forwarded, host, body) ==
    /\ http = NoRequest
    /\ LET request == [authorization |-> authorization, forwarded |-> forwarded,
                       host |-> host]
           raised == IF endpoint \in AuthDependent
                     THEN Auth(request, POLISHRR_TOKEN, ALLOWED_IPS) ELSE None
           received == [endpoint |-> endpoint, authorization |-> authorization,
                        forwarded |-> forwarded, host |-> host, body |-> body,
                        status |-> None, served |-> FALSE]
           answered(status) == [received EXCEPT !.served = TRUE, !.status = status]
       IN IF raised # None
          THEN /\ http' = [received EXCEPT !.status = raised]
               /\ UNCHANGED <<op, LAST_STATUS, job>>
          ELSE IF endpoint = "trigger"
          THEN /\ Triggered(1, body.target)
               /\ http' = answered(IF RUN_LOCK.locked THEN 409 ELSE 200)
               /\ UNCHANGED op
          ELSE IF MissingTargetOrId(endpoint, body)
          THEN /\ http' = answered(400)
               /\ UNCHANGED <<op, LAST_STATUS, job>>
          ELSE IF endpoint \in OpRoutes
          THEN /\ op' = Called(OpOf(endpoint, body), body.target, body.id, body.tagged)
               /\ http' = answered(None)
               /\ UNCHANGED <<LAST_STATUS, job>>
          ELSE /\ http' = answered(200)
               /\ UNCHANGED <<op, LAST_STATUS, job>>
    /\ UNCHANGED <<engineVars, RUN_LOCK, EVENT_QUEUE, tc, POLISHRR_TOKEN, ALLOWED_IPS, att,
                   stream, poll, pool>>

\* the operation has ended and its handler answers: the queries return their
\* answer, with the errors of their parts in it; upgrade_item and
\* force_upgrade_item return the result, or answer 500 if the operation raised
\* (lines 145-149 and 161-162)
Respond ==
    /\ http.served /\ http.status = None
    /\ op.pc = "idle"
    /\ http' = [http EXCEPT !.status = IF op.result = "ok" THEN 200 ELSE 500]
    /\ UNCHANGED <<engineVars, webVars, tc, POLISHRR_TOKEN, ALLOWED_IPS, att, stream, poll,
                   op, pool>>

\* both kinds enabled; the services hold nothing, or one movie with its file
\* and one series with its episode files
InitAuth ==
    /\ cfg = Config(TRUE, 1, TRUE, 1)
    /\ \/ NoLibraries
       \/ /\ InitRadarr(1) /\ InitSonarr(1, MaxFiles)
          /\ rTags = sTags
          /\ DOMAIN movie = {1} /\ movie[1].monitored /\ movie[1].tags = {}
          /\ movie[1].movieFileId # None /\ movieFile[1] = 1
          /\ DOMAIN series = {1} /\ series[1].monitored /\ series[1].tags = {}
          /\ DOMAIN episodeFile = 1..MaxFiles
          /\ \A f \in DOMAIN episodeFile : episodeFile[f].customFormatScore = 1
    /\ InitEngine
    /\ InitWeb
    /\ tc = TcInit
    /\ POLISHRR_TOKEN \in Secrets
    /\ ALLOWED_IPS \in AllowLists
    /\ http = NoRequest
    /\ att = NoAttempt
    /\ stream = NoStream
    /\ poll = NoPoll
    /\ op = NoOp
    /\ pool = NoPool

NextAuth ==
    \/ \E endpoint \in Endpoints, authorization \in Authorizations,
          forwarded \in Forwarded, host \in Hosts :
             \E body \in Bodies(endpoint) :
                Request(endpoint, authorization, forwarded, host, body)
    \/ OpRequests
    \/ Respond

SpecAuth == InitAuth /\ [][NextAuth]_vars

\* ------------------------------------------------------------------ claims
\* What the services hold, read without the cycle's locals.
HasEngineTag(tags, store) == EngineTag(store) # None /\ EngineTag(store) \in tags
BelowCutoff(m) ==
    /\ m.movieFileId # None
    /\ movieFile[m.movieFileId] < QualityProfiles[m.qualityProfileId]
AllScoresFetched == DOMAIN rad.fetched = rad.listed

\* C3: once the candidates of movies are collected and no score fetch failed, a
\* movie of the library as listed is a candidate exactly if it is monitored, has
\* a file whose score is below the cutoff of its profile, and does not carry the
\* engine tag; a candidate's currentScore and requiredScore are that score and
\* that cutoff.
C3_MovieCandidatesIff ==
    (rad.collected /\ AllScoresFetched) =>
       /\ DOMAIN rad.candidates \subseteq DOMAIN pre.movie
       /\ \A i \in DOMAIN pre.movie :
            i \in DOMAIN rad.candidates <=>
               /\ pre.movie[i].monitored
               /\ BelowCutoff(pre.movie[i])
               /\ ~HasEngineTag(pre.movie[i].tags, rTags)
       /\ \A i \in DOMAIN rad.candidates :
            /\ rad.candidates[i].currentScore = movieFile[pre.movie[i].movieFileId]
            /\ rad.candidates[i].requiredScore =
                  QualityProfiles[pre.movie[i].qualityProfileId]

\* C3 witness: a collection without failed fetch that kept one listed movie and
\* dropped another
C3_Witness ==
    /\ rad.collected /\ AllScoresFetched
    /\ DOMAIN rad.candidates # {}
    /\ rad.listed \ DOMAIN rad.candidates # {}

\* C4: once the candidates of episodes are collected and no episode file list
\* failed, an episode file is a candidate exactly if its series is monitored, has
\* episode files, does not carry the engine tag, and the file's score is below
\* the cutoff of the series' profile.
C4_EpisodeCandidatesIff ==
    (son.collected /\ son.unfetched = {}) =>
       \A f \in DOMAIN episodeFile :
          f \in DOMAIN son.candidates <=>
             LET s == pre.series[episodeFile[f].seriesId] IN
             /\ s.monitored
             /\ s.episodeFileCount > 0
             /\ episodeFile[f].customFormatScore < QualityProfiles[s.qualityProfileId]
             /\ ~HasEngineTag(s.tags, sTags)

\* C5: a cycle of movies that started with the engine tag on every monitored
\* movie (there being one) and met no failed request has removed the tag from
\* every movie, has not collected candidates and has sent no search command.
C5_AllMonitoredTaggedResets ==
    LET monitored == {i \in DOMAIN pre.movie : pre.movie[i].monitored} IN
    ( /\ outcome.radarr \notin {"none", "disabled", "HTTPError"}
      /\ monitored # {}
      /\ \A i \in monitored : HasEngineTag(pre.movie[i].tags, rTags) )
    => /\ \A i \in DOMAIN movie : ~HasEngineTag(movie[i].tags, rTags)
       /\ ~rad.collected
       /\ searches.radarr = <<>>

\* C6: with a count of at least 1 and no failed request, once every movie that
\* meets the candidate condition but for the tag carries the tag, a later cycle
\* performs the reset.
Exhausted ==
    /\ cfg.radarr.enabled /\ cfg.radarr.num_to_upgrade >= 1
    /\ \E i \in DOMAIN movie : movie[i].monitored /\ BelowCutoff(movie[i])
    /\ \A i \in DOMAIN movie :
         (movie[i].monitored /\ BelowCutoff(movie[i])) => HasEngineTag(movie[i].tags, rTags)
C6_ResetFollowsExhaustion ==
    [](failures = 0) => (Exhausted ~> (outcome.radarr = "reset"))

\* C7: a movie that a selection tagged carries the engine tag until a reset
\* removes it, and while it does, no later cycle has it among its candidates or
\* among its selected movies.
C7_TaggedNotReselected ==
    /\ \A i \in hist.before \cup hist.now : HasEngineTag(movie[i].tags, rTags)
    /\ \A i \in hist.before :
         i \notin DOMAIN rad.candidates /\ i \notin Range(rad.selected_ids)

\* C7 witness: a later cycle tags a movie while a movie tagged by an earlier
\* cycle still carries the tag
C7_Witness == hist.before # {} /\ pc = "r_update"

\* C8, as amended: in either cycle, with a count of 0 or more and candidates
\* found, the selection raises no error and yields min(count, number of
\* candidates) distinct keys of the candidates.
SelectionOk(selected_ids, candidates, n) ==
    /\ Len(selected_ids) = IF n <= Cardinality(DOMAIN candidates)
                             THEN n ELSE Cardinality(DOMAIN candidates)
    /\ \A a, b \in 1..Len(selected_ids) : a # b => selected_ids[a] # selected_ids[b]
    /\ Range(selected_ids) \subseteq DOMAIN candidates
Selected(kind, locals) ==
    /\ outcome[kind] # "ValueError"
    /\ SelectionOk(locals.selected_ids, locals.candidates, cfg[kind].num_to_upgrade)
C8_SelectionSize ==
    /\ (rad.collected /\ DOMAIN rad.candidates # {} /\ cfg.radarr.num_to_upgrade >= 0)
         => Selected("radarr", rad)
    /\ (son.collected /\ DOMAIN son.candidates # {} /\ cfg.sonarr.num_to_upgrade >= 0)
         => Selected("sonarr", son)

\* C8 witness: in one run of main both cycles were asked for more items than
\* they had candidates, and selected
C8_Witness ==
    /\ rad.collected /\ cfg.radarr.num_to_upgrade > Cardinality(DOMAIN rad.candidates)
    /\ Len(rad.selected_ids) > 0
    /\ son.collected /\ cfg.sonarr.num_to_upgrade > Cardinality(DOMAIN son.candidates)
    /\ Len(son.selected_ids) > 0

\* C8 as stated: whenever candidates were found, whatever the count
C8_AnyCount ==
    /\ (rad.collected /\ DOMAIN rad.candidates # {}) => Selected("radarr", rad)
    /\ (son.collected /\ DOMAIN son.candidates # {}) => Selected("sonarr", son)

\* The jobs between the lock's acquisition and its release, and the accepted
\* triggers whose run has not ended.
InLock == {r \in Requests : job[r].pc \in {"run_start", "announce", "call", "finish"}}
InFlight == {r \in Requests : job[r].pc \in {"accepted", "waiting"}} \cup InLock

\* C1: at any time at most one background job is inside the run lock.
C1_OneJobInLock == Cardinality(InLock) <= 1

\* C1 witness: a job has called a cycle inside the lock while another accepted
\* job waits for the lock
C1_Witness ==
    \E r, q \in Requests : job[r].pc = "call" /\ job[q].pc = "waiting"

\* C2: while an accepted trigger's run has not ended no other trigger is
\* accepted (it is answered 409), no job waits in a queue for the lock, and the
\* status says running.
C2_SecondTriggerRejected ==
    /\ Cardinality(InFlight) <= 1
    /\ RUN_LOCK.waiters = <<>>
    /\ InFlight # {} => LAST_STATUS.running

\* C10: a run triggered with target both that has ended has called both cycles,
\* whatever the first of them raised.
C10_BothKindsAttempted ==
    \A r \in Requests :
       (job[r].pc = "done" /\ job[r].target = "both") =>
          job[r].attempted = {"radarr", "sonarr"}

\* C9: when none of the successive calls of ensure_tag with one label raised,
\* the calls returned one and the same id and issued at most one creation
\* request between them, and none if the tag existed before the first call.
C9_EnsureTagIdempotent ==
    tc.raised = 0 =>
       /\ \A a, b \in 1..Len(tc.returned) : tc.returned[a] = tc.returned[b]
       /\ \A a \in 1..Len(tc.returned) : rTags[tc.returned[a]] = tc.label
       /\ tc.posts <= 1
       /\ tc.existed => tc.posts = 0

\* C9 witness: all the calls have returned, and the first of them created the tag
C9_Witness ==
    /\ tc.pc = "done" /\ tc.call = MaxCalls /\ Len(tc.returned) = MaxCalls
    /\ tc.posts = 1

\* What C11 asks of each kind once a fetch has failed during the collection.
MovieFetchTolerated ==
    (rad.collected /\ ~AllScoresFetched) =>
       \A i \in DOMAIN pre.movie :
          i \in DOMAIN rad.candidates <=>
             /\ i \in DOMAIN rad.fetched
             /\ pre.movie[i].monitored
             /\ BelowCutoff(pre.movie[i])
             /\ ~HasEngineTag(pre.movie[i].tags, rTags)
SeriesFetchTolerated(monitoredOnly) ==
    (son.collected /\ son.unfetched # {}) =>
       \A f \in DOMAIN episodeFile :
          f \in DOMAIN son.candidates <=>
             LET s == pre.series[episodeFile[f].seriesId] IN
             /\ s.id \notin son.unfetched
             /\ monitoredOnly => s.monitored
             /\ s.episodeFileCount > 0
             /\ episodeFile[f].customFormatScore < QualityProfiles[s.qualityProfileId]
             /\ ~HasEngineTag(s.tags, sTags)

\* C11: a collection in which the fetch for one item failed (a movie's file
\* score, a series' episode files) has run to its end, the item is no candidate,
\* and every other item is a candidate exactly if it meets the candidate
\* condition (monitored, with a file, below the cutoff, not tagged).
C11_FailedFetchExcludesOnlyItsItem ==
    MovieFetchTolerated /\ SeriesFetchTolerated(TRUE)

\* C11 with the condition the collection of episodes applies, which does not
\* look at the series' monitored flag: the tolerance of a failed fetch by itself
FailedFetchToleratedAsCoded ==
    MovieFetchTolerated /\ SeriesFetchTolerated(FALSE)

\* a failed fetch was passed over and the collection still found a candidate
FailedFetchPassedOver ==
    \/ rad.collected /\ ~AllScoresFetched /\ DOMAIN rad.candidates # {}
    \/ son.collected /\ son.unfetched # {} /\ DOMAIN son.candidates # {}

\* C12: a request to an API route other than the health check is served only if
\* a secret is configured and the request carries a bearer token equal to it.
ApiRoutes == Endpoints \ {"healthz"}
C12_NoServiceWithoutToken ==
    (http.served /\ http.endpoint \in ApiRoutes) =>
       /\ POLISHRR_TOKEN # <<>>
       /\ http.authorization.bearer = POLISHRR_TOKEN

\* C12 for the routes that declare the dependency on _auth
ServedOnlyWithToken ==
    (http.served /\ http.endpoint \in AuthDependent) =>
       /\ POLISHRR_TOKEN # <<>>
       /\ http.authorization.bearer = POLISHRR_TOKEN
       /\ ClientAllowed(IF http.forwarded = "absent" THEN http.host ELSE http.forwarded,
                        ALLOWED_IPS)

\* C13: every accepted trigger's job comes to its end; a job that has ended has
\* published exactly one terminal event (done or error); and once no accepted
\* run is left, the status says not running, with a finish time and a result.
Accepted == {r \in Requests : job[r].response = 200}
StatusClosed ==
    /\ ~LAST_STATUS.running
    /\ LAST_STATUS.finished # None
    /\ LAST_STATUS.last_result # "None"
C13_AcceptedTriggerCompletes ==
    /\ \A r \in Requests : (job[r].response = 200) ~> (job[r].pc = "done")
    /\ [](\A r \in Accepted : job[r].terminal = IF job[r].pc \in {"finish", "done"}
                                                  THEN 1 ELSE 0)
    /\ []((Accepted # {} /\ InFlight = {}) => StatusClosed)

\* C13 witness: two accepted runs have ended, one reported done and one error
C13_Witness ==
    \E r, q \in Requests :
       /\ job[r].pc = "done" /\ job[r].res = "ok"
       /\ job[q].pc = "done" /\ job[q].res = "error"
       /\ StatusClosed

\* C14: every step that changes the run status is taken by a job that holds the
\* run lock when it takes the step.
C14_StatusWrittenUnderLock ==
    [][LAST_STATUS' # LAST_STATUS => \E r \in InLock : job'[r] # job[r]]_vars

\* C14 for the update at the end of a run alone (line 106)
StatusClosedUnderLock ==
    [][LAST_STATUS'.finished # LAST_STATUS.finished /\ LAST_STATUS'.finished # None
          => \E r \in InLock : job'[r] # job[r]]_vars

\* C15: the list of recent upgrades of a kind is, once the cycle of this run has
\* made its selection, the part of the selection tagged so far, each entry a
\* tagged item, in the order of the selection (all of it when the cycle got to
\* its search); and it is the list as the run found it as long as the cycle has
\* made no selection (disabled, reset, no candidates, or an error before).
SelectionMade(locals) == locals.collected /\ locals.i > 0
MovieEntry(mid) == [id |-> mid, title |-> rad.candidates[mid].title]
EpisodeEntry(ep_id) == [id |-> ep_id, title |-> son.candidates[ep_id].title,
                        seriesId |-> son.candidates[ep_id].seriesId]
C15_RecentUpgradesOfLastSelection ==
    /\ IF SelectionMade(rad)
       THEN /\ RECENT_UPGRADES.radarr =
                 [k \in 1..(rad.i - 1) |-> MovieEntry(rad.selected_ids[k])]
            /\ \A k \in 1..(rad.i - 1) :
                 HasEngineTag(movie[rad.selected_ids[k]].tags, rTags)
       ELSE RECENT_UPGRADES.radarr = pre.recent.radarr
    /\ IF SelectionMade(son)
       THEN \E n \in 0..Len(son.selected_ids) :
              /\ RECENT_UPGRADES.sonarr = [k \in 1..n |-> EpisodeEntry(son.selected_ids[k])]
              /\ \A k \in 1..n :
                   HasEngineTag(series[son.candidates[son.selected_ids[k]].seriesId].tags,
                                sTags)
              /\ (pc \in {"s_resolve", "s_search"}
                    \/ outcome.sonarr \in {"searched", "no_episode_ids"})
                   => n = Len(son.selected_ids)
       ELSE RECENT_UPGRADES.sonarr = pre.recent.sonarr

\* C15 witness: a cycle of movies has tagged a movie and recorded it, in a run
\* that found the record of an earlier cycle in the list
C15_Witness ==
    /\ pre.recent.radarr # <<>>
    /\ SelectionMade(rad) /\ rad.i > 1
    /\ RECENT_UPGRADES.radarr # pre.recent.radarr

\* C16, as amended: a request whose every attempt met no connection or a status
\* of the force list is attempted 1 + maxRetries times (4 by default), and then
\* raises: ConnectionError, or HTTPError with the status of the last answer.
GaveUp ==
    /\ att.pc = "raised"
    /\ att.error = "ConnectionError" \/ att.status_code \in StatusForcelist
C16_AttemptsBeforeFailure ==
    /\ GaveUp => att.attempts = 1 + att.max_retries
    /\ (att.pc = "sending" /\ att.attempts > 0) => att.attempts <= att.max_retries
    /\ att.pc = "returned" => ~RaisesForStatus(att.status_code)

\* C16 witness: with the default of 3, a request has given up on a status of
\* the force list
C16_Witness ==
    GaveUp /\ att.max_retries = MAX_RETRIES /\ att.error = "HTTPError"

\* C16 as stated: the attempts of a request that gave up are maxRetries in all
C16_MaxRetriesAttempts ==
    GaveUp => att.attempts = att.max_retries

\* C17: a cycle whose collection returned no candidate ends there and leaves
\* everything as it found it: no item is updated, no search command is sent,
\* and the list of recent upgrades of its kind is the one the run started with.
CollectedNothing(c) == c.collected /\ DOMAIN c.candidates = {}
C17_EmptyCollectionNoSideEffects ==
    /\ CollectedNothing(rad) =>
         /\ outcome.radarr = "no_candidates"
         /\ "radarr PUT /movie" \notin reqs
         /\ movie = pre.movie
         /\ searches.radarr = <<>>
         /\ RECENT_UPGRADES.radarr = pre.recent.radarr
    /\ CollectedNothing(son) =>
         /\ outcome.sonarr = "no_candidates"
         /\ "sonarr PUT /series" \notin reqs
         /\ series = pre.series
         /\ searches.sonarr = <<>>
         /\ RECENT_UPGRADES.sonarr = pre.recent.sonarr

\* C17 witness: a cycle of movies went through a library that is not empty and
\* collected nothing, the list of recent upgrades holding an earlier record
C17_Witness ==
    /\ CollectedNothing(rad)
    /\ rad.movies # <<>>
    /\ outcome.radarr = "no_candidates"
    /\ RECENT_UPGRADES.radarr # <<>>

\* C18: a trigger whose target is none of radarr, sonarr and both is refused:
\* it is never accepted, and no run of it is reported as successful.
KnownTargets == {"radarr", "sonarr", "both"}
C18_UnknownTargetRefused ==
    \A r \in Requests :
       job[r].target \notin KnownTargets =>
          /\ job[r].response # 200
          /\ job[r].res # "ok"

\* C19: whatever the number of subscribers, no published event is delivered to
\* two of them, every subscriber receives its events in the order of their
\* publication (and none twice), and publishing never makes the publisher wait.
Serial(e) == e.data[1]
C19_EventsToOneSubscriberInOrder ==
    /\ \A s, t \in Subscribers :
         s # t => \A i \in DOMAIN stream.sub[s].got, j \in DOMAIN stream.sub[t].got :
                    Serial(stream.sub[s].got[i]) # Serial(stream.sub[t].got[j])
    /\ \A s \in Subscribers :
         \A i, j \in DOMAIN stream.sub[s].got :
            i < j => Serial(stream.sub[s].got[i]) < Serial(stream.sub[s].got[j])
    /\ ~stream.blocked

\* C19 witness: every event of the behaviour was published and delivered, two
\* subscribers got some of them, and one of the two got two
C19_Witness ==
    /\ stream.published = MaxEvents /\ EVENT_QUEUE = <<>>
    /\ Len(stream.sub[1].got) >= 2
    /\ Len(stream.sub[2].got) >= 1

\* C20: a status poll sent while a triggered cycle is executing is answered
\* before that cycle completes, and its answer says running = true.
C20_PollAnsweredDuringCycle ==
    poll.during # None =>
       /\ poll.pc = "issued" => poll.during \in InCycle
       /\ poll.pc = "answered" => poll.in_cycle /\ poll.running

\* C21: items tagged by a cycle that failed before its search keep the engine
\* tag (nothing is rolled back), and no later cycle of main commands a search
\* for them, as long as no reset has taken the tag off them.
EpisodesOfSeries(s) ==
    UNION {EpisodeIdsOf(f) : f \in {g \in DOMAIN episodeFile : episodeFile[g].seriesId = s}}
C21_TaggedUnsearchedStaysSo ==
    /\ \A kind \in {"radarr", "sonarr"} :
         \A i \in LeftTagged(kind) :
            IF kind = "radarr" THEN HasEngineTag(movie[i].tags, rTags)
            ELSE HasEngineTag(series[i].tags, sTags)
    /\ \A i \in hist.stranded.radarr :
         /\ HasEngineTag(movie[i].tags, rTags)
         /\ \A k \in DOMAIN searches.radarr : i \notin Range(searches.radarr[k])
    /\ \A s \in hist.stranded.sonarr :
         /\ HasEngineTag(series[s].tags, sTags)
         /\ \A k \in DOMAIN searches.sonarr :
              EpisodesOfSeries(s) \cap Range(searches.sonarr[k]) = {}

\* C21 witness: a later run of main has commanded a search of movies while a
\* movie tagged by a failed cycle still waits with its tag
C21_Witness ==
    /\ hist.stranded.radarr # {}
    /\ searches.radarr # <<>>

\* C21 witness for episodes: a later cycle of episodes has collected its
\* candidates while a series tagged by a failed cycle, with a file below its
\* cutoff, still carries the tag
C21_WitnessSeries ==
    /\ \E s \in hist.stranded.sonarr : EpisodesOfSeries(s) # {}
    /\ son.collected

\* C22, as amended: a cycle tags at most configuredCount items (none if the
\* count is negative), a search of movies names at most configuredCount ids, and
\* a search of episodes names only episodes of the selected files, which are at
\* most configuredCount files; there is at most one search command per cycle.
AtMost(n) == IF n < 0 THEN 0 ELSE n
NewlyTaggedMovies ==
    {i \in DOMAIN movie : HasEngineTag(movie[i].tags, rTags)
                            /\ ~HasEngineTag(pre.movie[i].tags, rTags)}
NewlyTaggedSeries ==
    {s \in DOMAIN series : HasEngineTag(series[s].tags, sTags)
                             /\ ~HasEngineTag(pre.series[s].tags, sTags)}
TaggingBounded ==
    /\ Cardinality(NewlyTaggedMovies) <= AtMost(cfg.radarr.num_to_upgrade)
    /\ Cardinality(NewlyTaggedSeries) <= AtMost(cfg.sonarr.num_to_upgrade)
    /\ Len(searches.radarr) <= 1 /\ Len(searches.sonarr) <= 1
    /\ \A k \in DOMAIN searches.radarr :
         Len(searches.radarr[k]) <= AtMost(cfg.radarr.num_to_upgrade)
C22_CycleUpgradesBoundedNumber ==
    /\ TaggingBounded
    /\ \A k \in DOMAIN searches.sonarr :
         /\ Len(son.selected_ids) <= AtMost(cfg.sonarr.num_to_upgrade)
         /\ Range(searches.sonarr[k]) \subseteq
              UNION {EpisodeIdsOf(f) : f \in Range(son.selected_ids)}

\* C22 witness: a search of episodes names more episodes than the configured
\* count, all of them episodes of the one selected file
C22_Witness ==
    /\ searches.sonarr # <<>>
    /\ Len(searches.sonarr[1]) > cfg.sonarr.num_to_upgrade
    /\ Len(son.selected_ids) = 1

\* C22 as stated: the search command of either kind names at most
\* configuredCount ids
C22_SearchTargetsAtMostCount ==
    /\ TaggingBounded
    /\ \A k \in DOMAIN searches.sonarr :
         Len(searches.sonarr[k]) <= AtMost(cfg.sonarr.num_to_upgrade)

\* C23: no step of the engine (a cycle, upgrade-item, force-upgrade-item, a
\* query) deletes a tag that bears the engine label, and the only steps that
\* take such a tag off an item are those of the reset loop of the movies cycle.
EngineTagIds(store) == {t \in TagIds : store[t] = UPGRADE_TAG}
LosesEngineTag(before, after, store) ==
    \E t \in EngineTagIds(store) : t \in before.tags /\ t \notin after.tags
C23_EngineTagOnlyRemovedByReset ==
    [][/\ EngineTagIds(rTags) \subseteq EngineTagIds(rTags')
       /\ EngineTagIds(sTags) \subseteq EngineTagIds(sTags')
       /\ \A i \in DOMAIN movie :
            LosesEngineTag(movie[i], movie'[i], rTags) => pc = "r_reset" /\ op' = op
       /\ \A x \in DOMAIN series :
            ~LosesEngineTag(series[x], series'[x], sTags)]_vars

\* C24: a cycle of movies that selected and ended without error has fetched
\* each selected movie afresh and written it back with the tags it then had
\* plus the engine tag, and has sent, after the last of these updates and not
\* before, one MoviesSearch command that names exactly the selected ids.
SelectedMovies == Range(rad.selected_ids)
C24_MoviesTaggedThenOneSearch ==
    /\ Len(searches.radarr) <= 1
    /\ searches.radarr # <<>> => outcome.radarr = "searched"
    /\ pc = "r_update" => rad.m = movie[rad.selected_ids[rad.i]]
    /\ outcome.radarr = "searched" =>
         /\ searches.radarr = <<rad.selected_ids>>
         /\ rad.i = Len(rad.selected_ids) + 1
         /\ hist.now = SelectedMovies
         /\ SelectedMovies # {} => "radarr GET /movie/id" \in reqs
         /\ \A mid \in SelectedMovies :
              movie[mid].tags = pre.movie[mid].tags \cup {rad.tag_id}

\* C24 witness: a cycle has tagged two movies, one of which bore another tag,
\* and has sent its search command
C24_Witness ==
    /\ outcome.radarr = "searched"
    /\ Len(rad.selected_ids) = 2
    /\ \E mid \in SelectedMovies : pre.movie[mid].tags # {}

\* C25: a cycle of episodes sends at most one EpisodeSearch command, after the
\* series of every selected file has been tagged and every selected file has
\* been looked up; it sends it exactly when the lookups returned some episode
\* id, with the ascending list, free of duplicates, of the ids they returned;
\* the ids of a file whose lookup failed or returned nothing are not in it,
\* and the series of that file stays tagged.
SelectedFiles == Range(son.selected_ids)
Ascending(ids) == \A a, b \in DOMAIN ids : a < b => ids[a] < ids[b]
SelectedSeriesTagged ==
    \A f \in SelectedFiles : son.tag_id \in series[son.candidates[f].seriesId].tags
ResolveLoopOver == son.selected_ids # <<>> /\ son.i = Len(son.selected_ids) + 1
C25_OneEpisodeSearchOfResolvedIds ==
    /\ Len(searches.sonarr) <= 1
    /\ Range(son.all_episode_ids) \subseteq UNION {EpisodeIdsOf(f) : f \in SelectedFiles}
    /\ "sonarr POST /command" \in reqs =>
         /\ pc = "idle"
         /\ ResolveLoopOver
         /\ SelectedSeriesTagged
         /\ son.all_episode_ids # <<>>
    /\ outcome.sonarr = "no_episode_ids" =>
         /\ son.all_episode_ids = <<>>
         /\ "sonarr POST /command" \notin reqs
         /\ searches.sonarr = <<>>
         /\ SelectedSeriesTagged
    /\ outcome.sonarr = "searched" =>
         /\ Len(searches.sonarr) = 1
         /\ Ascending(searches.sonarr[1])
         /\ Range(searches.sonarr[1]) = Range(son.all_episode_ids)
         /\ failures = 0 =>
              Range(searches.sonarr[1]) = UNION {EpisodeIdsOf(f) : f \in SelectedFiles}
    /\ searches.sonarr # <<>> => outcome.sonarr = "searched"

\* C25 witness: two files were selected and their series tagged; the lookup of
\* one returned nothing, that of the other two ids in descending order, and
\* the search command was sent
C25_Witness ==
    /\ outcome.sonarr = "searched"
    /\ Len(son.selected_ids) = 2
    /\ \E f \in SelectedFiles : EpisodeIdsOf(f) \cap Range(searches.sonarr[1]) = {}
    /\ ~Ascending(son.all_episode_ids)
    /\ SelectedSeriesTagged

\* C26: in a cycle of one kind the requests that read come before those that
\* write: the test for the reset comes before the collection, and the cycle
\* tags no item and sends no search command before its collection is over,
\* every score fetch ended. The updates of the reset loop are sent in a cycle
\* that does not collect.
MoviesCollectionBegun == "radarr GET /qualityprofile" \in reqs
MoviesCollected == rad.collected /\ rad.pending = {}
EpisodesCollected == son.collected /\ son.j > Len(son.series_list)
MoviesTagging ==
    \/ pc \in {"r_fresh", "r_update", "r_search"}
    \/ hist.now # {}
    \/ "radarr GET /movie/id" \in reqs
    \/ "radarr POST /command" \in reqs
EpisodesTagging ==
    \/ pc \in {"s_fresh", "s_update", "s_resolve", "s_search"}
    \/ {"sonarr GET /series/id", "sonarr PUT /series", "sonarr GET /episode",
        "sonarr POST /command"} \cap reqs # {}
C26_ReadsBeforeWrites ==
    /\ MoviesCollectionBegun => {"radarr GET /tag", "radarr GET /movie"} \subseteq reqs
    /\ pc = "r_reset" \/ outcome.radarr = "reset" =>
         ~MoviesCollectionBegun /\ ~rad.collected
    /\ MoviesTagging => MoviesCollected
    /\ "radarr PUT /movie" \in reqs => MoviesCollected \/ ~MoviesCollectionBegun
    /\ EpisodesTagging => EpisodesCollected

\* C26 witness: two score fetches ended, then both movies were tagged and the
\* search command was sent
C26_Witness ==
    /\ outcome.radarr = "searched"
    /\ Cardinality(rad.listed) = 2
    /\ Len(rad.selected_ids) = 2

\* C26 as stated: no item is updated before the collection of its kind is over
C26_NoUpdateBeforeCollected ==
    /\ "radarr PUT /movie" \in reqs \/ "radarr POST /command" \in reqs => MoviesCollected
    /\ "sonarr PUT /series" \in reqs \/ "sonarr POST /command" \in reqs =>
         EpisodesCollected

\* C27: parallel_map never runs more fetches at a time than the width of its
\* pool, which is MAX_PARALLEL_REQUESTS (8 when unset) but never less than 2;
\* it returns after every fetch it submitted has ended, with one result for
\* each fetch that returned and none for a fetch that raised.
FetchesInFlight == Cardinality(pool.running)
Joined ==
    /\ pool.submitted = pool.items
    /\ pool.queue = <<>> /\ pool.running = {}
    /\ pool.ended = 1..pool.items
    /\ Range(pool.results) = pool.ended \ pool.raised
    /\ Len(pool.results) = Cardinality(pool.ended \ pool.raised)
C27_PoolBoundedAndJoined ==
    /\ FetchesInFlight <= (IF pool.MAX_PARALLEL_REQUESTS = None THEN 8
                    ELSE IF pool.MAX_PARALLEL_REQUESTS < 2 THEN 2
                    ELSE pool.MAX_PARALLEL_REQUESTS)
    /\ pool.pc = "returned" => Joined

\* C27 witness: of three fetches in a pool of width 2, one has raised and
\* left no result, and the two others are running
C27_Witness ==
    /\ pool.items = 3 /\ pool.max_workers = 2
    /\ FetchesInFlight = 2
    /\ pool.yielded \cap pool.raised # {}
    /\ pool.results = <<>>

\* C27 as stated: never more fetches in flight than the configured width
C27_InFlightAtMostConfigured ==
    /\ FetchesInFlight <= (IF pool.MAX_PARALLEL_REQUESTS = None THEN 8
                    ELSE pool.MAX_PARALLEL_REQUESTS)
    /\ pool.pc = "returned" => Joined

\* C28: no update of the engine (the tagging of a cycle or of upgrade-item,
\* the reset) takes from an item a tag other than the engine tag: the other
\* tags the item has in the catalog when the update arrives are still on it
\* afterwards, whatever was written between the engine's read and its update.
OtherTags(item, store) == item.tags \ EngineTagIds(store)
C28_OtherTagsKept ==
    [][/\ \A i \in DOMAIN movie : OtherTags(movie[i], rTags) \subseteq movie'[i].tags
       /\ \A x \in DOMAIN series : OtherTags(series[x], sTags) \subseteq series'[x].tags]_vars

\* C29: while the job of an accepted trigger runs inside the lock, or has not
\* started yet, the status says running and has no finish time; the status
\* says not running only when no accepted trigger is pending or running.
C29_StatusRunningWhileInFlight ==
    InFlight # {} => LAST_STATUS.running /\ LAST_STATUS.finished = None

\* C30: whatever the interleaving of the operations that call ensure_tag on
\* one service, the service holds at most one tag with the engine label.
C30_OneEngineTag ==
    /\ Cardinality(EngineTagIds(rTags)) <= 1
    /\ Cardinality(EngineTagIds(sTags)) <= 1

\* C31: the cycle of episodes has no reset. A run of main that starts when
\* every series with episode files bears the engine tag collects no candidate
\* of episodes, updates no series and sends no EpisodeSearch, and leaves the
\* series as they were, so that the same holds of every later run; and no run
\* takes the engine tag off a series that bore it when the run started.
SeriesWithFiles(lib) == {x \in DOMAIN lib : lib[x].episodeFileCount > 0}
EverySeriesTagged(lib) ==
    /\ EngineTag(sTags) # None
    /\ \A x \in SeriesWithFiles(lib) : EngineTag(sTags) \in lib[x].tags
C31_NoEpisodesReset ==
    /\ \A x \in DOMAIN series :
         EngineTagIds(sTags) \cap pre.series[x].tags \subseteq series[x].tags
    /\ EverySeriesTagged(pre.series) =>
         /\ DOMAIN son.candidates = {}
         /\ son.selected_ids = <<>>
         /\ "sonarr PUT /series" \notin reqs
         /\ "sonarr POST /command" \notin reqs
         /\ searches.sonarr = <<>>
         /\ series = pre.series
         /\ outcome.sonarr \in {"none", "disabled", "no_candidates", "HTTPError"}

\* C31 witness: an earlier cycle tagged the last series, and the cycle of this
\* run went through the series, all tagged, and collected nothing
C31_Witness ==
    /\ EverySeriesTagged(pre.series)
    /\ SeriesWithFiles(pre.series) # {}
    /\ RECENT_UPGRADES.sonarr # <<>>
    /\ son.collected /\ outcome.sonarr = "no_candidates"

\* C32: with a count of at least 1 and no failed request, a cycle of movies
\* that collected candidates tags at least one of them and none but them, so
\* that fewer of them are left untagged; and every movie that a cycle collected
\* as a candidate is tagged in that cycle or in a later one.
CountAtLeastOne == cfg.radarr.num_to_upgrade >= 1
UntaggedCandidates == {i \in DOMAIN rad.candidates : rad.tag_id \notin movie[i].tags}
CandidateCollected(i) ==
    CountAtLeastOne /\ rad.collected /\ i \in DOMAIN rad.candidates
CycleShrinksCandidates ==
    (/\ CountAtLeastOne /\ failures = 0
     /\ rad.collected /\ DOMAIN rad.candidates # {}
     /\ outcome.radarr # "none") =>
        /\ outcome.radarr = "searched"
        /\ hist.now # {}
        /\ hist.now \subseteq DOMAIN rad.candidates
        /\ UntaggedCandidates = DOMAIN rad.candidates \ hist.now
        /\ Cardinality(UntaggedCandidates) < Cardinality(DOMAIN rad.candidates)
C32_CandidatesEventuallyTagged ==
    /\ []CycleShrinksCandidates
    /\ \A i \in 1..MaxMovies :
         CandidateCollected(i) ~>
            (failures > 0 \/ (i \in DOMAIN movie /\ EngineTag(rTags) \in movie[i].tags))

\* C32 witness: of two candidates a first cycle tagged one, and the cycle of
\* this run collected the other and tagged it, no request having failed
C32_Witness ==
    /\ failures = 0 /\ CountAtLeastOne
    /\ hist.before # {} /\ hist.now # {}
    /\ hist.before \cap hist.now = {}
    /\ outcome.radarr = "searched"
    /\ UntaggedCandidates = {}
====
